---- MODULE Spec2Model ----
(***************************************************************************)
(* Retrieval engine of the RAG pipeline: the in-memory VectorDatabase      *)
(* (aimakerspace/vectordatabase.py), the embedding model's cosine          *)
(* similarity (aimakerspace/openai_utils/embedding.py) and the RAGService  *)
(* orchestration (api/rag_service.py).                                     *)
(*                                                                         *)
(* Scores.  cosine_similarity returns the float dot / (norm1 * norm2).     *)
(* Embeddings here have integer components, so the score c is represented  *)
(* exactly by the fraction sgn(c) * c^2 = sgn(dot) * dot^2 / (|a|^2 |b|^2) *)
(* in lowest terms, <<num, den>>.  The map c |-> sgn(c) * c^2 is strictly  *)
(* increasing, so comparisons, ties and the ordering of scores are those   *)
(* of c itself.                                                            *)
(***************************************************************************)
EXTENDS Integers, Sequences, FiniteSets, TLC

VARIABLES
    vectors,         \* VectorDatabase.vectors: the dict, as the sequence of its items in insertion order
    dimension,       \* VectorDatabase.dimension: None or the bound embedding length
    uuid_next,       \* number of uuid4() values drawn so far; the next id is uuid_next + 1
    document_store,  \* RAGService.document_store: the dict, as the sequence of its items in insertion order
    rag_storage,     \* the files _save_database writes under rag_storage/
    last,            \* the last completed call: its name, inputs, outcome and return value
    threads,         \* concurrent process_pdf callers: each one's position and locals
    splitter         \* a call that runs in steps (split_text, chunk_text, _chunk_text,
                     \* stream_rag_response): its arguments, position and locals

vars == <<vectors, dimension, uuid_next, document_store, rag_storage, last, threads, splitter>>

----------------------------------------------------------------------------
(* Bounds of the model *)

MaxIds == 3        \* uuid4() values drawn in one run
MaxStored == 2     \* records in a store that search is applied to
MaxTopK == 2       \* largest top_k passed to search
MaxIngests == 2    \* uuid4() values drawn by the ingests of one service run

----------------------------------------------------------------------------
(* Values *)

None == -1

Min(a, b) == IF a <= b THEN a ELSE b
Max(a, b) == IF a >= b THEN a ELSE b
Abs(a) == IF a >= 0 THEN a ELSE 0 - a

RECURSIVE GCD(_, _)
GCD(a, b) == IF b = 0 THEN a ELSE GCD(b, a % b)

\* The empty dict {} and the argument default None of a metadata parameter.
EmptyDict == <<>>
NoMetadata == [none |-> TRUE]

\* Texts, as sequences of characters.
T_startup == <<"s", "t", "a", "r", "t", "u", "p">>
T_growth == <<"g", "r", "o", "w", "t", "h">>
T_churn == <<"c", "h", "u", "r", "n">>
T_pitch == <<"p", "i", "t", "c", "h">>
T_poem == <<"p", "o", "e", "m">>

Texts == {T_startup, T_growth, T_churn, T_pitch, T_poem}

\* Texts inserted by the calls on one store (embeddings of two lengths).
InsertTexts == {T_startup, T_growth, T_pitch}

\* The embedding the embedding API answers for a text when the call succeeds:
\* a fixed function of the text.  Two lengths occur, and the values include
\* opposite, oblique and zero-norm vectors.
ApiEmbedding(text) ==
    CASE text = T_startup -> <<1, 0>>
      [] text = T_growth  -> <<1, 1>>
      [] text = T_churn   -> <<-1, 0>>
      [] text = T_poem    -> <<0, 0>>
      [] text = T_pitch   -> <<1>>
      [] OTHER            -> <<1, 0>>

\* EmbeddingModel.get_embedding: the API's embedding, or [] when the call raised.
get_embedding(text, api_ok) == IF api_ok THEN ApiEmbedding(text) ELSE <<>>

\* EmbeddingModel.get_embeddings: the texts go to the API in sub-batches of
\* batch_size; a sub-batch whose call raised contributes one [] per text.
\* batch_oks[k] tells whether the call of the k-th sub-batch succeeded.
batch_size == 100

NumBatches(n) == (n + batch_size - 1) \div batch_size

\* Mutant: every item shares the fate of the first sub-batch.
BatchOf_first(i) == 1

BatchOf(i) == ((i - 1) \div batch_size) + 1

get_embeddings(texts, batch_oks) ==
    [i \in 1..Len(texts) |-> get_embedding(texts[i], batch_oks[BatchOf(i)])]

----------------------------------------------------------------------------
(* EmbeddingModel.cosine_similarity *)

RECURSIVE DotFrom(_, _, _)
DotFrom(a, b, i) == IF i > Len(a) THEN 0 ELSE a[i] * b[i] + DotFrom(a, b, i + 1)

Dot(a, b) == DotFrom(a, b, 1)

Zero == <<0, 1>>

Fraction(num, den) ==
    IF num = 0 THEN Zero
    ELSE LET g == GCD(Abs(num), den) IN <<num \div g, den \div g>>

\* np.dot of two non-empty vectors of different lengths raises ValueError.
cosine_raises(e1, e2) == e1 # <<>> /\ e2 # <<>> /\ Len(e1) # Len(e2)

cosine_similarity(e1, e2) ==
    IF e1 = <<>> \/ e2 = <<>> THEN Zero
    ELSE LET dot == Dot(e1, e2)
             n1 == Dot(e1, e1)
             n2 == Dot(e2, e2)
         IN IF n1 = 0 \/ n2 = 0 THEN Zero
            ELSE Fraction((IF dot >= 0 THEN 1 ELSE -1) * dot * dot, n1 * n2)

\* similarity >= score_threshold
ScoreGE(a, b) == a[1] * b[2] >= b[1] * a[2]

----------------------------------------------------------------------------
(* Text helpers: str.strip, str.split, str.lower, substring test *)

\* str.isspace for one character
IsSpace(c) == c \in {" ", "\n", "\t"}

RECURSIVE LStrip(_)
LStrip(text) ==
    IF text # <<>> /\ IsSpace(Head(text)) THEN LStrip(Tail(text)) ELSE text

RECURSIVE RStrip(_)
RStrip(text) ==
    IF text # <<>> /\ IsSpace(text[Len(text)])
    THEN RStrip(SubSeq(text, 1, Len(text) - 1)) ELSE text

\* text.strip()
Strip(text) == RStrip(LStrip(text))

\* len(text.split()): the number of maximal runs of non-whitespace characters
WordCount(text) ==
    Cardinality({i \in 1..Len(text) :
                    ~IsSpace(text[i]) /\ (i = 1 \/ IsSpace(text[i - 1]))})

UpperCase == <<"A", "B", "C", "D", "E", "F", "G", "H", "I", "J", "K", "L", "M", "N", "O", "P", "Q", "R", "S", "T", "U", "V", "W", "X", "Y", "Z">>
LowerCase == <<"a", "b", "c", "d", "e", "f", "g", "h", "i", "j", "k", "l", "m", "n", "o", "p", "q", "r", "s", "t", "u", "v", "w", "x", "y", "z">>

LowerChar(c) ==
    IF \E k \in 1..Len(UpperCase) : UpperCase[k] = c
    THEN LowerCase[CHOOSE k \in 1..Len(UpperCase) : UpperCase[k] = c]
    ELSE c

\* text.lower()
Lower(text) == [i \in 1..Len(text) |-> LowerChar(text[i])]

\* `keyword in text`
Contains(text, keyword) ==
    \E i \in 1..(Len(text) - Len(keyword) + 1) :
        SubSeq(text, i, i + Len(keyword) - 1) = keyword

\* text[a:b] for 0 <= a, with b clipped to the length
PySlice(text, a, b) == SubSeq(text, a + 1, Min(b, Len(text)))

----------------------------------------------------------------------------
(* CharacterTextSplitter.split_text *)

\* The window end after the boundary search, for a nominal end inside the text
\* (text[i] of the source is text[i + 1] here).
WindowEnd(text, chunk_size, start, end) ==
    LET half == start + (chunk_size \div 2)
        sentence == {i \in (Max(half, end - 100) + 1)..end : text[i + 1] \in {".", "!", "?"}}
        space == {i \in (Max(half, end - 50) + 1)..end : IsSpace(text[i + 1])}
        Last(S) == CHOOSE i \in S : \A j \in S : j <= i
    IN IF sentence # {} THEN Last(sentence) + 1
       ELSE IF space # {} THEN Last(space)
       ELSE end

NextStart_without_floor(start, end, chunk_overlap) == end - chunk_overlap

NextStart_past_end(start, end, chunk_overlap) == Max(start + 1, end + 1 - chunk_overlap)

\* start = max(start + 1, end - self.chunk_overlap)
NextStart(start, end, chunk_overlap) == Max(start + 1, end - chunk_overlap)

RECURSIVE SplitLoop(_, _, _, _, _)
SplitLoop(text, chunk_size, chunk_overlap, start, chunks) ==
    IF start >= Len(text) THEN chunks
    ELSE LET nominal == start + chunk_size
             end == IF nominal < Len(text)
                    THEN WindowEnd(text, chunk_size, start, nominal) ELSE nominal
             chunk == Strip(PySlice(text, start, end))
             chunks2 == IF chunk # <<>> THEN Append(chunks, chunk) ELSE chunks
             start2 == NextStart(start, end, chunk_overlap)
         IN IF start2 >= Len(text) THEN chunks2
            ELSE SplitLoop(text, chunk_size, chunk_overlap, start2, chunks2)

split_text(text, chunk_size, chunk_overlap) ==
    IF Len(text) <= chunk_size THEN <<text>>
    ELSE SplitLoop(text, chunk_size, chunk_overlap, 0, <<>>)

----------------------------------------------------------------------------
(* RAGService._validate_startup_content *)

startup_keywords ==
    <<<<"s", "t", "a", "r", "t", "u", "p">>,
      <<"b", "u", "s", "i", "n", "e", "s", "s">>,
      <<"c", "o", "m", "p", "a", "n", "y">>,
      <<"e", "n", "t", "r", "e", "p", "r", "e", "n", "e", "u", "r">>,
      <<"v", "e", "n", "t", "u", "r", "e">>,
      <<"f", "u", "n", "d", "i", "n", "g">>,
      <<"i", "n", "v", "e", "s", "t", "m", "e", "n", "t">>,
      <<"r", "e", "v", "e", "n", "u", "e">>,
      <<"p", "r", "o", "f", "i", "t">>,
      <<"m", "a", "r", "k", "e", "t">>,
      <<"c", "u", "s", "t", "o", "m", "e", "r">>,
      <<"p", "r", "o", "d", "u", "c", "t">>,
      <<"s", "e", "r", "v", "i", "c", "e">>,
      <<"s", "t", "r", "a", "t", "e", "g", "y">>,
      <<"b", "u", "s", "i", "n", "e", "s", "s", " ", "p", "l", "a", "n">>,
      <<"p", "i", "t", "c", "h">>,
      <<"i", "n", "v", "e", "s", "t", "o", "r">>,
      <<"v", "a", "l", "u", "a", "t", "i", "o", "n">>,
      <<"g", "r", "o", "w", "t", "h">>,
      <<"s", "c", "a", "l", "e">>,
      <<"c", "o", "m", "p", "e", "t", "i", "t", "i", "o", "n">>,
      <<"t", "e", "a", "m">>,
      <<"f", "o", "u", "n", "d", "e", "r">>,
      <<"C", "E", "O">>,
      <<"C", "T", "O">>,
      <<"b", "o", "a", "r", "d">>,
      <<"e", "q", "u", "i", "t", "y">>,
      <<"s", "h", "a", "r", "e", "s">>,
      <<"f", "i", "n", "a", "n", "c", "i", "a", "l">>,
      <<"m", "a", "r", "k", "e", "t", "i", "n", "g">>,
      <<"s", "a", "l", "e", "s">>,
      <<"o", "p", "e", "r", "a", "t", "i", "o", "n", "s">>,
      <<"m", "o", "d", "e", "l">>,
      <<"v", "i", "s", "i", "o", "n">>,
      <<"m", "i", "s", "s", "i", "o", "n">>,
      <<"g", "o", "a", "l", "s">>,
      <<"m", "e", "t", "r", "i", "c", "s">>,
      <<"K", "P", "I">>,
      <<"R", "O", "I">>,
      <<"C", "A", "C">>,
      <<"L", "T", "V">>,
      <<"c", "h", "u", "r", "n">>,
      <<"a", "c", "q", "u", "i", "s", "i", "t", "i", "o", "n">>,
      <<"r", "e", "t", "e", "n", "t", "i", "o", "n">>,
      <<"e", "c", "o", "s", "y", "s", "t", "e", "m">>,
      <<"i", "n", "d", "u", "s", "t", "r", "y">>,
      <<"s", "e", "c", "t", "o", "r">>,
      <<"c", "o", "r", "p", "o", "r", "a", "t", "e">>,
      <<"o", "r", "g", "a", "n", "i", "z", "a", "t", "i", "o", "n">>,
      <<"m", "a", "n", "a", "g", "e", "m", "e", "n", "t">>,
      <<"l", "e", "a", "n", " ", "s", "t", "a", "r", "t", "u", "p">>,
      <<"a", "g", "i", "l", "e">>,
      <<"m", "v", "p">>,
      <<"m", "i", "n", "i", "m", "u", "m", " ", "v", "i", "a", "b", "l", "e", " ", "p", "r", "o", "d", "u", "c", "t">>,
      <<"p", "r", "o", "d", "u", "c", "t", " ", "m", "a", "r", "k", "e", "t", " ", "f", "i", "t">>,
      <<"p", "i", "v", "o", "t">>,
      <<"i", "t", "e", "r", "a", "t", "i", "o", "n">>,
      <<"h", "y", "p", "o", "t", "h", "e", "s", "i", "s">>,
      <<"v", "a", "l", "i", "d", "a", "t", "i", "o", "n">>,
      <<"f", "e", "e", "d", "b", "a", "c", "k", " ", "l", "o", "o", "p">>,
      <<"u", "s", "e", "r", " ", "r", "e", "s", "e", "a", "r", "c", "h">>,
      <<"d", "e", "s", "i", "g", "n", " ", "t", "h", "i", "n", "k", "i", "n", "g">>,
      <<"c", "u", "s", "t", "o", "m", "e", "r", " ", "d", "e", "v", "e", "l", "o", "p", "m", "e", "n", "t">>,
      <<"b", "u", "i", "l", "d", " ", "m", "e", "a", "s", "u", "r", "e", " ", "l", "e", "a", "r", "n">>,
      <<"s", "p", "r", "i", "n", "t">>,
      <<"s", "c", "r", "u", "m">>,
      <<"k", "a", "n", "b", "a", "n">>,
      <<"r", "o", "a", "d", "m", "a", "p">>,
      <<"b", "a", "c", "k", "l", "o", "g">>,
      <<"u", "s", "e", "r", " ", "s", "t", "o", "r", "y">>,
      <<"p", "e", "r", "s", "o", "n", "a">>,
      <<"j", "o", "u", "r", "n", "e", "y">>,
      <<"b", "e", "s", "t", " ", "p", "r", "a", "c", "t", "i", "c", "e", "s">>,
      <<"f", "r", "a", "m", "e", "w", "o", "r", "k">>,
      <<"m", "e", "t", "h", "o", "d", "o", "l", "o", "g", "y">>,
      <<"p", "r", "o", "c", "e", "s", "s">>,
      <<"w", "o", "r", "k", "f", "l", "o", "w">>,
      <<"o", "p", "t", "i", "m", "i", "z", "a", "t", "i", "o", "n">>,
      <<"e", "f", "f", "i", "c", "i", "e", "n", "c", "y">>,
      <<"p", "r", "o", "d", "u", "c", "t", "i", "v", "i", "t", "y">>,
      <<"p", "e", "r", "f", "o", "r", "m", "a", "n", "c", "e">>,
      <<"q", "u", "a", "l", "i", "t", "y">>,
      <<"s", "t", "a", "n", "d", "a", "r", "d", "s">>,
      <<"g", "u", "i", "d", "e", "l", "i", "n", "e", "s">>,
      <<"g", "o", "v", "e", "r", "n", "a", "n", "c", "e">>,
      <<"c", "o", "m", "p", "l", "i", "a", "n", "c", "e">>,
      <<"r", "i", "s", "k", " ", "m", "a", "n", "a", "g", "e", "m", "e", "n", "t">>,
      <<"d", "e", "c", "i", "s", "i", "o", "n", " ", "m", "a", "k", "i", "n", "g">>,
      <<"l", "e", "a", "d", "e", "r", "s", "h", "i", "p">>,
      <<"c", "u", "l", "t", "u", "r", "e">>,
      <<"v", "a", "l", "u", "e", "s">>,
      <<"p", "r", "i", "n", "c", "i", "p", "l", "e", "s">>,
      <<"e", "t", "h", "i", "c", "s">>,
      <<"t", "r", "a", "n", "s", "p", "a", "r", "e", "n", "c", "y">>,
      <<"a", "c", "c", "o", "u", "n", "t", "a", "b", "i", "l", "i", "t", "y">>,
      <<"s", "c", "a", "l", "i", "n", "g">>,
      <<"e", "x", "p", "a", "n", "s", "i", "o", "n">>,
      <<"m", "a", "r", "k", "e", "t", " ", "e", "n", "t", "r", "y">>,
      <<"g", "o", " ", "t", "o", " ", "m", "a", "r", "k", "e", "t">>,
      <<"g", "t", "m">>,
      <<"l", "a", "u", "n", "c", "h">>,
      <<"p", "r", "o", "d", "u", "c", "t", " ", "l", "a", "u", "n", "c", "h">>,
      <<"m", "a", "r", "k", "e", "t", " ", "p", "e", "n", "e", "t", "r", "a", "t", "i", "o", "n">>,
      <<"u", "s", "e", "r", " ", "a", "c", "q", "u", "i", "s", "i", "t", "i", "o", "n">>,
      <<"g", "r", "o", "w", "t", "h", " ", "h", "a", "c", "k", "i", "n", "g">>,
      <<"v", "i", "r", "a", "l">>,
      <<"n", "e", "t", "w", "o", "r", "k", " ", "e", "f", "f", "e", "c", "t", "s">>,
      <<"p", "l", "a", "t", "f", "o", "r", "m">>,
      <<"m", "a", "r", "k", "e", "t", "p", "l", "a", "c", "e">>,
      <<"e", "c", "o", "s", "y", "s", "t", "e", "m">>,
      <<"p", "a", "r", "t", "n", "e", "r", "s", "h", "i", "p">>,
      <<"c", "o", "l", "l", "a", "b", "o", "r", "a", "t", "i", "o", "n">>,
      <<"i", "n", "t", "e", "g", "r", "a", "t", "i", "o", "n">>,
      <<"a", "u", "t", "o", "m", "a", "t", "i", "o", "n">>,
      <<"d", "i", "g", "i", "t", "a", "l", "i", "z", "a", "t", "i", "o", "n">>,
      <<"u", "n", "i", "t", " ", "e", "c", "o", "n", "o", "m", "i", "c", "s">>,
      <<"b", "u", "r", "n", " ", "r", "a", "t", "e">>,
      <<"r", "u", "n", "w", "a", "y">>,
      <<"c", "a", "s", "h", " ", "f", "l", "o", "w">>,
      <<"p", "r", "o", "f", "i", "t", "a", "b", "i", "l", "i", "t", "y">>,
      <<"m", "o", "n", "e", "t", "i", "z", "a", "t", "i", "o", "n">>,
      <<"p", "r", "i", "c", "i", "n", "g">>,
      <<"b", "u", "s", "i", "n", "e", "s", "s", " ", "m", "o", "d", "e", "l">>,
      <<"v", "a", "l", "u", "e", " ", "p", "r", "o", "p", "o", "s", "i", "t", "i", "o", "n">>,
      <<"c", "o", "m", "p", "e", "t", "i", "t", "i", "v", "e", " ", "a", "d", "v", "a", "n", "t", "a", "g", "e">>,
      <<"m", "a", "r", "k", "e", "t", " ", "s", "h", "a", "r", "e">>,
      <<"t", "o", "t", "a", "l", " ", "a", "d", "d", "r", "e", "s", "s", "a", "b", "l", "e", " ", "m", "a", "r", "k", "e", "t">>,
      <<"t", "a", "m">>,
      <<"s", "a", "m">>,
      <<"s", "o", "m">>,
      <<"a", "n", "a", "l", "y", "s", "i", "s">>,
      <<"f", "o", "r", "e", "c", "a", "s", "t">>,
      <<"p", "r", "o", "j", "e", "c", "t", "i", "o", "n">>,
      <<"b", "u", "d", "g", "e", "t">>,
      <<"p", "l", "a", "n", "n", "i", "n", "g">>,
      <<"r", "e", "s", "o", "u", "r", "c", "e", " ", "a", "l", "l", "o", "c", "a", "t", "i", "o", "n">>>>

\* sum(1 for keyword in startup_keywords if keyword in text_lower)
keyword_count(text) ==
    LET text_lower == Lower(text)
    IN Cardinality({k \in 1..Len(startup_keywords) : Contains(text_lower, startup_keywords[k])})

\* keyword_count of the documents of the model, evaluated once.
CountedTexts == Texts \cup {text \o <<"\n">> : text \in Texts}
KeywordCounts == [text \in CountedTexts |-> keyword_count(text)]

\* The nearest integer to num / den (den > 0, num >= 0), halves to the even one.
RoundDiv(num, den) ==
    LET q == num \div den
        r == num % den
    IN IF 2 * r < den THEN q
       ELSE IF 2 * r > den THEN q + 1
       ELSE IF q % 2 = 0 THEN q ELSE q + 1

\* The judge's reply as the regex Score:\s*(\d+) sees it: NoScore when nothing
\* matches (which includes the apology text generate_response returns when the
\* API call raised), else the number matched.
NoScore == -1

\* The try block raised (the reply is no string, or the call itself raised).
JudgeRaised == -2

AiScore_propagates_failure(ai_response) == ai_response

\* ai_score: the matched number, 5 without a match, 5 in the except branch.
AiScore(ai_response) == IF ai_response \in {NoScore, JudgeRaised} THEN 5 ELSE ai_response

\* Mutant: the gate reads the rounded final score.
validate_startup_content_gate_on_rounded(text, ai_response) ==
    LET kc == IF text \in CountedTexts THEN KeywordCounts[text] ELSE keyword_count(text)
        wc == Max(WordCount(text), 1)
        ai == AiScore(ai_response)
    IN [is_valid |-> RoundDiv(100 * (200 * kc + ai * wc), 3 * wc) >= 350,
        keyword_count |-> kc,
        keyword_density |-> RoundDiv(10000 * kc, wc),
        ai_score |-> ai,
        final_score |-> RoundDiv(100 * (200 * kc + ai * wc), 3 * wc)]

\* The validation result; keyword_density and final_score in hundredths, as
\* round(x, 2) reports them.
validate_startup_content(text, ai_response) ==
    LET kc == IF text \in CountedTexts THEN KeywordCounts[text] ELSE keyword_count(text)
        wc == Max(WordCount(text), 1)
        ai == AiScore(ai_response)
    IN [is_valid |-> 2 * (200 * kc + ai * wc) >= 21 * wc,
        keyword_count |-> kc,
        keyword_density |-> RoundDiv(10000 * kc, wc),
        ai_score |-> ai,
        final_score |-> RoundDiv(100 * (200 * kc + ai * wc), 3 * wc)]

----------------------------------------------------------------------------
(* VectorDatabase *)

Record(text_id, text, embedding, metadata) ==
    [id |-> text_id, text |-> text, embedding |-> embedding, metadata |-> metadata]

Ids(vecs) == {vecs[i].id : i \in 1..Len(vecs)}

\* self.vectors[text_id] = {...}: a new key is appended, an existing key keeps
\* its position and gets the new value.
DictSet(vecs, rec) ==
    IF rec.id \in Ids(vecs)
    THEN [i \in 1..Len(vecs) |-> IF vecs[i].id = rec.id THEN rec ELSE vecs[i]]
    ELSE Append(vecs, rec)

\* del self.vectors[text_id]
DictDel(vecs, text_id) == SelectSeq(vecs, LAMBDA r : r.id # text_id)

\* `if not embedding`
IsFalsy(embedding) == embedding = <<>>

\* Mutant: the length comparison is lost.
DimensionMismatch_never(dim, embedding) == FALSE

\* `elif len(embedding) != self.dimension` (reached only when dimension is set)
DimensionMismatch(dim, embedding) == Len(embedding) # dim

\* `metadata or {}`
MetadataOrEmpty(metadata) ==
    IF metadata = NoMetadata \/ metadata = EmptyDict THEN EmptyDict ELSE metadata

\* Mutant: the dimension is bound before the embedding is checked.
AddTextResult_binds_first(vecs, dim, text_id, text, embedding, metadata) ==
    LET bound == IF dim = None THEN Len(embedding) ELSE dim
    IN IF IsFalsy(embedding) \/ DimensionMismatch(bound, embedding)
       THEN [raised |-> TRUE, vectors |-> vecs, dimension |-> bound]
       ELSE [raised |-> FALSE,
             vectors |-> DictSet(vecs, Record(text_id, text, embedding, MetadataOrEmpty(metadata))),
             dimension |-> bound]

\* The body of add_text after the embedding call: the error raised, if any, and
\* the store it leaves.
AddTextResult(vecs, dim, text_id, text, embedding, metadata) ==
    IF IsFalsy(embedding)
    THEN [raised |-> TRUE, vectors |-> vecs, dimension |-> dim]
    ELSE IF dim # None /\ DimensionMismatch(dim, embedding)
    THEN [raised |-> TRUE, vectors |-> vecs, dimension |-> dim]
    ELSE [raised |-> FALSE,
          vectors |-> DictSet(vecs, Record(text_id, text, embedding, MetadataOrEmpty(metadata))),
          dimension |-> IF dim = None THEN Len(embedding) ELSE dim]

\* Mutant: the id of an item skipped for its length is still returned.
AddTextsStep_returns_skipped(st, text, embedding, metadata) ==
    IF IsFalsy(embedding)
    THEN st
    ELSE LET text_id == st.uuid + 1
             drawn == [st EXCEPT !.uuid = text_id]
         IN IF drawn.dimension # None /\ DimensionMismatch(drawn.dimension, embedding)
            THEN [drawn EXCEPT !.text_ids = Append(drawn.text_ids, text_id)]
            ELSE [drawn EXCEPT
                    !.dimension = IF drawn.dimension = None THEN Len(embedding) ELSE drawn.dimension,
                    !.vectors = DictSet(drawn.vectors, Record(text_id, text, embedding, metadata)),
                    !.text_ids = Append(drawn.text_ids, text_id)]

\* One iteration of the add_texts loop on the running state
\* st = [vectors, dimension, uuid, text_ids].
AddTextsStep(st, text, embedding, metadata) ==
    IF IsFalsy(embedding)
    THEN st
    ELSE LET text_id == st.uuid + 1
             drawn == [st EXCEPT !.uuid = text_id]
         IN IF drawn.dimension # None /\ DimensionMismatch(drawn.dimension, embedding)
            THEN drawn
            ELSE [drawn EXCEPT
                    !.dimension = IF drawn.dimension = None THEN Len(embedding) ELSE drawn.dimension,
                    !.vectors = DictSet(drawn.vectors, Record(text_id, text, embedding, metadata)),
                    !.text_ids = Append(drawn.text_ids, text_id)]

\* zip(texts, embeddings, metadatas) stops at the shortest of the three.
\* The iterations lo..hi of the loop, in order.  The range is halved and the
\* state after the first half is computed (its id counter never decreases)
\* before the second half starts, so that long lists do not nest deeply.
RECURSIVE AddTextsRange(_, _, _, _, _, _)
AddTextsRange(st, texts, embeddings, metadatas, lo, hi) ==
    IF lo > hi THEN st
    ELSE IF lo = hi THEN AddTextsStep(st, texts[lo], embeddings[lo], metadatas[lo])
    ELSE LET mid == (lo + hi) \div 2
             left == AddTextsRange(st, texts, embeddings, metadatas, lo, mid)
         IN IF left.uuid >= st.uuid
            THEN AddTextsRange(left, texts, embeddings, metadatas, mid + 1, hi)
            ELSE st

AddTextsLoop(st, texts, embeddings, metadatas, i) ==
    AddTextsRange(st, texts, embeddings, metadatas, i,
                  Min(Len(texts), Min(Len(embeddings), Len(metadatas))))

\* `metadatas = [{}] * len(texts)` when metadatas is None
DefaultMetadatas(texts) == [i \in 1..Len(texts) |-> EmptyDict]

\* The whole of add_texts on the store (vecs, dim) with uuid counter uuid:
\* [raised, vectors, dimension, uuid, text_ids].  The metadatas argument is
\* NoMetadata (None) or [list |-> the list].
AddTextsResult(vecs, dim, uuid, texts, metadatas, batch_oks) ==
    IF metadatas # NoMetadata /\ Len(metadatas.list) # Len(texts)
    THEN [raised |-> TRUE, vectors |-> vecs, dimension |-> dim, uuid |-> uuid, text_ids |-> <<>>]
    ELSE LET metas == IF metadatas = NoMetadata THEN DefaultMetadatas(texts) ELSE metadatas.list
             st == AddTextsLoop([vectors |-> vecs, dimension |-> dim, uuid |-> uuid, text_ids |-> <<>>],
                                texts, get_embeddings(texts, batch_oks), metas, 1)
         IN [raised |-> FALSE, vectors |-> st.vectors, dimension |-> st.dimension,
             uuid |-> st.uuid, text_ids |-> st.text_ids]

\* The scoring loop of search: one result per stored record whose similarity
\* reaches the threshold, in dict order.
RECURSIVE Similarities(_, _, _, _)
Similarities(vecs, query_embedding, score_threshold, i) ==
    IF i > Len(vecs) THEN <<>>
    ELSE LET data == vecs[i]
             similarity == cosine_similarity(query_embedding, data.embedding)
             rest == Similarities(vecs, query_embedding, score_threshold, i + 1)
         IN IF ScoreGE(similarity, score_threshold)
            THEN <<[id |-> data.id, text |-> data.text,
                    metadata |-> data.metadata, score |-> similarity]>> \o rest
            ELSE rest

\* The loop raises as soon as np.dot meets a stored embedding of another length.
SearchRaises(vecs, query_embedding) ==
    \E i \in 1..Len(vecs) : cosine_raises(query_embedding, vecs[i].embedding)

\* Mutant: an unstable sort, x goes in front of the elements of equal score.
RECURSIVE InsertDesc_unstable(_, _)
InsertDesc_unstable(sorted, x) ==
    IF sorted = <<>> THEN <<x>>
    ELSE IF ~ScoreGE(x.score, Head(sorted).score)
         THEN <<Head(sorted)>> \o InsertDesc_unstable(Tail(sorted), x)
         ELSE <<x>> \o sorted

\* list.sort(key=score, reverse=True) is stable: x goes behind every element
\* whose score is >= its own.
RECURSIVE InsertDesc(_, _)
InsertDesc(sorted, x) ==
    IF sorted = <<>> THEN <<x>>
    ELSE IF ScoreGE(Head(sorted).score, x.score)
         THEN <<Head(sorted)>> \o InsertDesc(Tail(sorted), x)
         ELSE <<x>> \o sorted

RECURSIVE SortDesc(_, _)
SortDesc(sorted, todo) ==
    IF todo = <<>> THEN sorted ELSE SortDesc(InsertDesc(sorted, Head(todo)), Tail(todo))

\* seq[:top_k], negative top_k counting from the end.
SliceTo(seq, top_k) ==
    LET stop == IF top_k >= 0 THEN Min(top_k, Len(seq)) ELSE Max(Len(seq) + top_k, 0)
    IN SubSeq(seq, 1, stop)

\* search, given the embedding obtained for the query: [raised, results].
SearchResult(vecs, query_embedding, top_k, score_threshold) ==
    IF vecs = <<>> THEN [raised |-> FALSE, results |-> <<>>]
    ELSE IF IsFalsy(query_embedding) THEN [raised |-> FALSE, results |-> <<>>]
    ELSE IF SearchRaises(vecs, query_embedding) THEN [raised |-> TRUE, results |-> <<>>]
    ELSE [raised |-> FALSE,
          results |-> SliceTo(SortDesc(<<>>, Similarities(vecs, query_embedding, score_threshold, 1)),
                              top_k)]

\* similarity_search_with_score_threshold, given the embedding obtained for the
\* query: search(query, top_k=len(self.vectors)) runs with its default
\* score_threshold 0.0, then the results are filtered and cut.
SimilaritySearchWithScoreThreshold(vecs, query_embedding, score_threshold, top_k) ==
    LET results == SearchResult(vecs, query_embedding, Len(vecs), Zero)
        filtered_results == SelectSeq(results.results,
                                      LAMBDA r : ScoreGE(r.score, score_threshold))
    IN IF results.raised THEN [raised |-> TRUE, results |-> <<>>]
       ELSE [raised |-> FALSE, results |-> SliceTo(filtered_results, top_k)]

\* Mutant: clear forgets to reset the dimension.
ClearResult_keeps_dimension(vecs, dim) == [vectors |-> <<>>, dimension |-> dim]

\* clear()
ClearResult(vecs, dim) == [vectors |-> <<>>, dimension |-> None]

\* get_stats()
Stats(vecs, dim) == [total_vectors |-> Len(vecs), dimension |-> dim]

----------------------------------------------------------------------------
(* Calls on one VectorDatabase *)

Call(op, args, raised, ret) == [op |-> op, args |-> args, raised |-> raised, ret |-> ret]

\* Inputs of the calls.
Metadatas == {NoMetadata, [filename |-> "a.pdf", chunk_index |-> 0]}
TopKs == -1..MaxTopK
\* score_threshold values -0.8, 0.0 and 0.1
Thresholds == {<<-16, 25>>, Zero, <<1, 100>>}

Threads == {"w1", "w2"}
Idle == [pc |-> "idle"]

\* rag_storage/ before the first save: neither file exists.
NoFile == [exists |-> FALSE]
\* No split_text call is running.
NoSplit == [pc |-> "idle"]

NoStorage == [vector_db |-> NoFile, document_metadata |-> NoFile]

Init ==
    /\ vectors = <<>>
    /\ dimension = None
    /\ uuid_next = 0
    /\ document_store = <<>>
    /\ rag_storage = NoStorage
    /\ last = Call("init", <<>>, FALSE, <<>>)
    /\ threads = [t \in Threads |-> Idle]
    /\ splitter = NoSplit

add_text ==
    \E text \in InsertTexts, metadata \in Metadatas, api_ok \in BOOLEAN :
        /\ uuid_next < MaxIds
        /\ LET text_id == uuid_next + 1
               embedding == get_embedding(text, api_ok)
               r == AddTextResult(vectors, dimension, text_id, text, embedding, metadata)
           IN /\ vectors' = r.vectors
              /\ dimension' = r.dimension
              /\ uuid_next' = text_id
              /\ last' = Call("add_text", [text |-> text, embedding |-> embedding],
                              r.raised, IF r.raised THEN None ELSE text_id)
        /\ UNCHANGED <<document_store, rag_storage, threads, splitter>>

add_texts ==
    \E n \in 0..(MaxIds - uuid_next), n_metadatas \in {None, 0, 1} :
      \E texts \in [1..n -> InsertTexts], batch_oks \in [1..NumBatches(n) -> BOOLEAN] :
        /\ uuid_next + Len(texts) <= MaxIds
        \* metadatas: None, a list as long as texts, or a list one longer
        /\ LET metadatas == IF n_metadatas = None THEN NoMetadata
                            ELSE [list |-> [i \in 1..(Len(texts) + n_metadatas) |->
                                              [filename |-> "a.pdf", chunk_index |-> i - 1]]]
               r == AddTextsResult(vectors, dimension, uuid_next, texts, metadatas, batch_oks)
           IN /\ vectors' = r.vectors
              /\ dimension' = r.dimension
              /\ uuid_next' = r.uuid
              /\ last' = Call("add_texts",
                              [texts |-> texts, embeddings |-> get_embeddings(texts, batch_oks),
                               metadatas |-> metadatas],
                              r.raised, r.text_ids)
        /\ UNCHANGED <<document_store, rag_storage, threads, splitter>>

delete_by_id ==
    \E text_id \in 1..MaxIds :
        /\ vectors' = IF text_id \in Ids(vectors) THEN DictDel(vectors, text_id) ELSE vectors
        /\ last' = Call("delete_by_id", [text_id |-> text_id], FALSE, text_id \in Ids(vectors))
        /\ UNCHANGED <<dimension, uuid_next, document_store, rag_storage, threads, splitter>>

clear ==
    /\ vectors' = ClearResult(vectors, dimension).vectors
    /\ dimension' = ClearResult(vectors, dimension).dimension
    /\ last' = Call("clear", <<>>, FALSE, None)
    /\ UNCHANGED <<uuid_next, document_store, rag_storage, threads, splitter>>

search ==
    \E query \in Texts, api_ok \in BOOLEAN, top_k \in TopKs, score_threshold \in Thresholds :
        LET query_embedding == get_embedding(query, api_ok)
            r == SearchResult(vectors, query_embedding, top_k, score_threshold)
        IN /\ last' = Call("search",
                           [query_embedding |-> query_embedding, top_k |-> top_k,
                            score_threshold |-> score_threshold],
                           r.raised, r.results)
           /\ UNCHANGED <<vectors, dimension, uuid_next, document_store, rag_storage, threads, splitter>>

get_stats ==
    /\ last' = Call("get_stats", <<>>, FALSE, Stats(vectors, dimension))
    /\ UNCHANGED <<vectors, dimension, uuid_next, document_store, rag_storage, threads, splitter>>

Next ==
    \/ add_text
    \/ add_texts
    \/ delete_by_id
    \/ clear
    \/ get_stats

Spec == Init /\ [][Next]_vars

\* search on the stores that runs of add_text leave.
RECURSIVE StoreAfter(_, _)
StoreAfter(st, texts) ==
    IF texts = <<>> THEN st
    ELSE LET r == AddTextResult(st.vectors, st.dimension, st.uuid + 1, Head(texts),
                                get_embedding(Head(texts), TRUE), NoMetadata)
         IN StoreAfter([vectors |-> r.vectors, dimension |-> r.dimension, uuid |-> st.uuid + 1],
                       Tail(texts))

InitSearch ==
    \E texts \in UNION {[1..n -> Texts] : n \in 0..MaxStored} :
        LET st == StoreAfter([vectors |-> <<>>, dimension |-> None, uuid |-> 0], texts)
        IN /\ vectors = st.vectors
           /\ dimension = st.dimension
           /\ uuid_next = st.uuid
           /\ document_store = <<>>
           /\ rag_storage = NoStorage
           /\ last = Call("init", <<>>, FALSE, <<>>)
           /\ threads = [t \in Threads |-> Idle]
           /\ splitter = NoSplit

NextSearch == search

SpecSearch == InitSearch /\ [][NextSearch]_vars

similarity_search_with_score_threshold ==
    \E query \in Texts, api_ok \in BOOLEAN, top_k \in TopKs, score_threshold \in Thresholds :
        LET query_embedding == get_embedding(query, api_ok)
            r == SimilaritySearchWithScoreThreshold(vectors, query_embedding, score_threshold, top_k)
        IN /\ last' = Call("similarity_search_with_score_threshold",
                           [query_embedding |-> query_embedding, top_k |-> top_k,
                            score_threshold |-> score_threshold],
                           r.raised, r.results)
           /\ UNCHANGED <<vectors, dimension, uuid_next, document_store, rag_storage, threads, splitter>>

NextThreshold == similarity_search_with_score_threshold

SpecThreshold == InitSearch /\ [][NextThreshold]_vars

----------------------------------------------------------------------------
(* RAGService *)

\* CharacterTextSplitter(chunk_size=1000, chunk_overlap=200)
service_chunk_size == 1000
service_chunk_overlap == 200

\* score_threshold=0.1 of the search in query_documents
query_score_threshold == <<1, 100>>

\* Filenames, as sequences of characters.
F_a == <<"a", ".", "p", "d", "f">>
F_b == <<"b", ".", "t", "x", "t">>
Filenames == {F_a, F_b}

EndsWith(text, suffix) ==
    /\ Len(text) >= Len(suffix)
    /\ SubSeq(text, Len(text) - Len(suffix) + 1, Len(text)) = suffix

\* filename.lower().endswith('.pdf')
IsPdf(filename) == EndsWith(Lower(filename), <<".", "p", "d", "f">>)

\* File contents.  file_bytes is [readable, raw]: readable tells whether
\* PdfReader (for a .pdf) or bytes.decode('utf-8') (for any other name) accepts
\* the bytes; raw is the text of the pages, each followed by a newline (for a
\* .pdf), or the decoded text.
NL == <<"\n">>
RawTexts == {<<>>, T_startup \o NL, T_pitch \o NL, T_poem \o NL}
FileBytes == [readable : {TRUE}, raw : RawTexts] \cup {[readable |-> FALSE, raw |-> <<>>]}

\* TextFileLoader.load_from_bytes: [raised, text]
load_from_bytes(file_bytes, filename) ==
    [raised |-> ~file_bytes.readable,
     text |-> IF IsPdf(filename) THEN Strip(file_bytes.raw) ELSE file_bytes.raw]

\* Replies of the judge: no score found, "Score: 11".
AiResponses == {NoScore, 11}

\* The replies of a judge that is unavailable.
JudgeDown == {NoScore, JudgeRaised}

\* The judge is not asked by a call that returns before the validation.
NotAsked == -3

\* document_store, a dict keyed by doc_id
DocIds(docs) == {docs[i].doc_id : i \in 1..Len(docs)}

DocGet(docs, doc_id) == docs[CHOOSE i \in 1..Len(docs) : docs[i].doc_id = doc_id]

\* self.document_store[doc_id] = {...}
DocSet(docs, doc) ==
    IF doc.doc_id \in DocIds(docs)
    THEN [i \in 1..Len(docs) |-> IF docs[i].doc_id = doc.doc_id THEN doc ELSE docs[i]]
    ELSE Append(docs, doc)

\* Mutant: the duplicate check is lost.
AlreadyProcessed_never(docs, doc_id) == FALSE

\* `if doc_id in self.document_store`
AlreadyProcessed(docs, doc_id) == doc_id \in DocIds(docs)

\* Mutant: the validation gate is lost.
Rejected_never(validation_result) == FALSE

\* `if not validation_result["is_valid"]`
Rejected(validation_result) == ~validation_result.is_valid

Failure(error) == [success |-> FALSE, error |-> error]

\* The "already processed" return value.
DuplicateReturn(docs, filename) ==
    [success |-> TRUE, document_id |-> filename, filename |-> filename,
     total_chunks |-> DocGet(docs, filename).total_chunks,
     chunks_added |-> "Already processed",
     relevance_score |-> DocGet(docs, filename).validation_result.final_score]

\* The metadata built for each chunk.
ChunkMetadatas(chunks, filename, validation_result) ==
    [i \in 1..Len(chunks) |->
        [filename |-> filename, chunk_index |-> i - 1, total_chunks |-> Len(chunks),
         chunk_size |-> Len(chunks[i]), content_score |-> validation_result.final_score,
         validated |-> TRUE]]

\* The document record written to document_store.
DocumentRecord(filename, text, chunks, chunk_ids, validation_result) ==
    [doc_id |-> filename, filename |-> filename, total_text_length |-> Len(text),
     total_chunks |-> Len(chunks), chunk_ids |-> chunk_ids, processed_at |-> "cwd",
     validation_result |-> validation_result]

\* The return value of a completed ingest.
SuccessReturn(filename, chunks, chunk_ids, validation_result) ==
    [success |-> TRUE, document_id |-> filename, filename |-> filename,
     total_chunks |-> Len(chunks), chunks_added |-> Len(chunk_ids),
     relevance_score |-> validation_result.final_score]

\* _save_database: vector_db.json, then document_metadata.json.  The writes
\* are taken to succeed; an exception in them is printed and swallowed and
\* touches nothing in memory.
SaveDatabase(vecs, dim, docs) ==
    [vector_db |-> [exists |-> TRUE, dimension |-> dim, vectors |-> vecs],
     document_metadata |-> [exists |-> TRUE, document_store |-> docs]]

\* The service's state as one record.
ServiceState(vecs, dim, uuid, docs, storage) ==
    [vectors |-> vecs, dimension |-> dim, uuid |-> uuid, document_store |-> docs,
     rag_storage |-> storage]

\* process_pdf on the state S: [ret, state, text, validation_result].  text and
\* validation_result are the locals of the call (<<>> when not computed).
ProcessPdfResult(S, file_bytes, filename, ai_response, batch_oks) ==
    LET doc_id == filename
        loaded == load_from_bytes(file_bytes, filename)
        text == loaded.text
        validation_result == validate_startup_content(text, ai_response)
        chunks == split_text(text, service_chunk_size, service_chunk_overlap)
        metadatas == ChunkMetadatas(chunks, filename, validation_result)
        added == AddTextsResult(S.vectors, S.dimension, S.uuid, chunks,
                                [list |-> metadatas], batch_oks)
        docs == DocSet(S.document_store,
                       DocumentRecord(filename, text, chunks, added.text_ids, validation_result))
        Out(ret, state, t, v) == [ret |-> ret, state |-> state, text |-> t, validation_result |-> v]
    IN IF AlreadyProcessed(S.document_store, doc_id)
       THEN Out(DuplicateReturn(S.document_store, filename), S, <<>>, <<>>)
       ELSE IF loaded.raised
       THEN Out(Failure("load_from_bytes raised"), S, <<>>, <<>>)
       ELSE IF Strip(text) = <<>>
       THEN Out(Failure("No text could be extracted from the PDF"), S, text, <<>>)
       ELSE IF Rejected(validation_result)
       THEN Out(Failure("This document doesn't appear to contain startup or company-related content"),
                S, text, validation_result)
       ELSE IF chunks = <<>>
       THEN Out(Failure("No chunks could be created from the text"), S, text, validation_result)
       ELSE IF added.raised
       THEN Out(Failure("Number of metadatas must match number of texts"),
                S, text, validation_result)
       ELSE Out(SuccessReturn(filename, chunks, added.text_ids, validation_result),
                ServiceState(added.vectors, added.dimension, added.uuid, docs,
                             SaveDatabase(added.vectors, added.dimension, docs)),
                text, validation_result)

\* "\n\n".join(context_parts)
RECURSIVE JoinBlank(_)
JoinBlank(parts) ==
    IF parts = <<>> THEN <<>>
    ELSE IF Len(parts) = 1 THEN parts[1]
    ELSE parts[1] \o NL \o NL \o JoinBlank(Tail(parts))

\* The integer part of the square root of n, by Newton's iteration from x.
RECURSIVE ISqrtFrom(_, _)
ISqrtFrom(n, x) ==
    LET y == (x + n \div x) \div 2
    IN IF y >= x THEN x ELSE ISqrtFrom(n, y)

ISqrt(n) == IF n = 0 THEN 0 ELSE ISqrtFrom(n, n)

\* round(score, 3), in thousandths: the integer nearest to 1000 * c, where the
\* score c is given as the fraction of sgn(c) * c^2.  (No score of the model
\* lies halfway between two thousandths.)
Round3(score) ==
    LET k == (ISqrt((4000000 * Abs(score[1])) \div score[2]) + 1) \div 2
    IN IF score[1] < 0 THEN 0 - k ELSE k

\* metadata.get(key, default)
MetadataGet(metadata, key, default) ==
    IF metadata # EmptyDict /\ key \in DOMAIN metadata THEN metadata[key] ELSE default

SourceInfo(result) ==
    [filename |-> MetadataGet(result.metadata, "filename", "Unknown"),
     chunk_index |-> MetadataGet(result.metadata, "chunk_index", 0),
     score |-> Round3(result.score)]

\* Mutant: the empty-store check is lost.
QueryDocumentsResult_no_empty_check(vecs, query_embedding, top_k) ==
    LET searched == SearchResult(vecs, query_embedding, top_k, query_score_threshold)
        search_results == searched.results
    IN IF searched.raised THEN Failure("Error querying documents")
       ELSE IF search_results = <<>>
       THEN [success |-> TRUE, context |-> <<>>, sources |-> <<>>]
       ELSE [success |-> TRUE,
             context |-> JoinBlank([i \in 1..Len(search_results) |-> search_results[i].text]),
             sources |-> [i \in 1..Len(search_results) |-> SourceInfo(search_results[i])],
             total_results |-> Len(search_results)]

\* query_documents, given the embedding obtained for the query: the return value.
QueryDocumentsResult(vecs, query_embedding, top_k) ==
    LET searched == SearchResult(vecs, query_embedding, top_k, query_score_threshold)
        search_results == searched.results
    IN IF vecs = <<>> THEN Failure("No startup or company documents have been uploaded yet")
       ELSE IF searched.raised THEN Failure("Error querying documents")
       ELSE IF search_results = <<>>
       THEN [success |-> TRUE, context |-> <<>>, sources |-> <<>>]
       ELSE [success |-> TRUE,
             context |-> JoinBlank([i \in 1..Len(search_results) |-> search_results[i].text]),
             sources |-> [i \in 1..Len(search_results) |-> SourceInfo(search_results[i])],
             total_results |-> Len(search_results)]

RECURSIVE SumScores(_)
SumScores(docs) ==
    IF docs = <<>> THEN 0 ELSE Head(docs).validation_result.final_score + SumScores(Tail(docs))

\* get_database_stats: average_content_relevance in hundredths.
DatabaseStats(vecs, dim, docs) ==
    LET stats == [total_vectors |-> Len(vecs), dimension |-> dim, documents |-> Len(docs),
                  document_list |-> [i \in 1..Len(docs) |-> docs[i].doc_id]]
    IN IF docs # <<>>
       THEN [total_vectors |-> stats.total_vectors, dimension |-> stats.dimension,
             documents |-> stats.documents, document_list |-> stats.document_list,
             average_content_relevance |-> RoundDiv(SumScores(docs), Len(docs))]
       ELSE stats

\* Mutant: clear_database leaves the document records.
ClearDatabaseResult_keeps_documents(S) ==
    LET cleared == ClearResult(S.vectors, S.dimension)
    IN ServiceState(cleared.vectors, cleared.dimension, S.uuid, S.document_store,
                    SaveDatabase(cleared.vectors, cleared.dimension, S.document_store))

\* clear_database: the state it leaves.
ClearDatabaseResult(S) ==
    LET cleared == ClearResult(S.vectors, S.dimension)
    IN ServiceState(cleared.vectors, cleared.dimension, S.uuid, <<>>,
                    SaveDatabase(cleared.vectors, cleared.dimension, <<>>))

----------------------------------------------------------------------------
(* Calls on one RAGService, one at a time *)

\* Queries: every text with the embedding call answered, one with the call failing.
Queries == [query : Texts, api_ok : {TRUE}] \cup {[query |-> T_startup, api_ok |-> FALSE]}

Current == ServiceState(vectors, dimension, uuid_next, document_store, rag_storage)

ProcessPdf(ai_responses) ==
    \E file_bytes \in FileBytes, filename \in Filenames, ai_response \in ai_responses,
       batch_ok \in BOOLEAN :
        LET r == ProcessPdfResult(Current, file_bytes, filename, ai_response, <<batch_ok>>)
        IN /\ r.state.uuid <= MaxIngests
           /\ vectors' = r.state.vectors
           /\ dimension' = r.state.dimension
           /\ uuid_next' = r.state.uuid
           /\ document_store' = r.state.document_store
           /\ rag_storage' = r.state.rag_storage
           /\ last' = Call("process_pdf",
                           [filename |-> filename, readable |-> file_bytes.readable,
                            text |-> r.text,
                            ai_response |-> IF r.validation_result = <<>> THEN NotAsked
                                            ELSE ai_response,
                            validation_result |-> r.validation_result],
                           FALSE, r.ret)
           /\ UNCHANGED <<threads, splitter>>

process_pdf == ProcessPdf(AiResponses)

query_documents ==
    \E q \in Queries, top_k \in TopKs :
        LET query_embedding == get_embedding(q.query, q.api_ok)
        IN /\ last' = Call("query_documents",
                           [query_embedding |-> query_embedding, top_k |-> top_k],
                           FALSE, QueryDocumentsResult(vectors, query_embedding, top_k))
           /\ UNCHANGED <<vectors, dimension, uuid_next, document_store, rag_storage, threads, splitter>>

clear_database ==
    LET S == ClearDatabaseResult(Current)
    IN /\ vectors' = S.vectors
       /\ dimension' = S.dimension
       /\ document_store' = S.document_store
       /\ rag_storage' = S.rag_storage
       /\ last' = Call("clear_database", <<>>, FALSE, [success |-> TRUE])
       /\ UNCHANGED <<uuid_next, threads, splitter>>

get_database_stats ==
    /\ last' = Call("get_database_stats", <<>>, FALSE,
                    DatabaseStats(vectors, dimension, document_store))
    /\ UNCHANGED <<vectors, dimension, uuid_next, document_store, rag_storage, threads, splitter>>

NextService ==
    \/ process_pdf
    \/ query_documents
    \/ clear_database
    \/ get_database_stats

SpecService == Init /\ [][NextService]_vars

\* Uploads while the judge is unavailable.
process_pdf_judge_down == ProcessPdf(JudgeDown)

NextJudgeDown ==
    \/ process_pdf_judge_down
    \/ clear_database

SpecJudgeDown == Init /\ [][NextJudgeDown]_vars

----------------------------------------------------------------------------
(* Concurrent process_pdf calls on one RAGService.  The code takes no lock, *)
(* so the calls of two threads interleave between their statements; the    *)
(* steps below cut a call at the duplicate check, at the two API calls and  *)
(* inside an iteration of the add_texts loop.                               *)

ConcurrentRawTexts == {T_startup \o NL, T_pitch \o NL}

InFlight == {t \in Threads : threads[t].pc # "idle"}

Return(t, filename, ret) ==
    /\ threads' = [threads EXCEPT ![t] = Idle]
    /\ last' = Call("process_pdf", [filename |-> filename, thread |-> t], FALSE, ret)

\* Entry of process_pdf up to the call of the judge: the duplicate check and
\* the text extraction.
pp_check_duplicate(t) ==
    \E raw \in ConcurrentRawTexts, filename \in Filenames :
        LET loaded == load_from_bytes([readable |-> TRUE, raw |-> raw], filename)
        IN /\ threads[t].pc = "idle"
           /\ uuid_next + Cardinality(InFlight) < MaxIngests
           /\ IF AlreadyProcessed(document_store, filename)
              THEN Return(t, filename, DuplicateReturn(document_store, filename))
              ELSE IF loaded.raised
              THEN Return(t, filename, Failure("load_from_bytes raised"))
              ELSE IF Strip(loaded.text) = <<>>
              THEN Return(t, filename, Failure("No text could be extracted from the PDF"))
              ELSE /\ threads' = [threads EXCEPT ![t] =
                                    [pc |-> "validate", filename |-> filename, text |-> loaded.text]]
                   /\ UNCHANGED last
           /\ UNCHANGED <<vectors, dimension, uuid_next, document_store, rag_storage, splitter>>

\* The judge answers; the gate, the split and the chunk metadata follow.
pp_validate(t) ==
    \E ai_response \in AiResponses :
        LET th == threads[t]
            validation_result == validate_startup_content(th.text, ai_response)
            chunks == split_text(th.text, service_chunk_size, service_chunk_overlap)
        IN /\ th.pc = "validate"
           /\ IF Rejected(validation_result)
              THEN Return(t, th.filename,
                          Failure("This document doesn't appear to contain startup or company-related content"))
              ELSE IF chunks = <<>>
              THEN Return(t, th.filename, Failure("No chunks could be created from the text"))
              ELSE /\ threads' = [threads EXCEPT ![t] =
                                    [pc |-> "get_embeddings", filename |-> th.filename,
                                     text |-> th.text, validation_result |-> validation_result,
                                     chunks |-> chunks,
                                     metadatas |-> ChunkMetadatas(chunks, th.filename, validation_result)]]
                   /\ UNCHANGED last
           /\ UNCHANGED <<vectors, dimension, uuid_next, document_store, rag_storage, splitter>>

\* add_texts up to its loop: the embedding API answers for the chunks.
pp_get_embeddings(t) ==
    \E batch_ok \in BOOLEAN :
        LET th == threads[t]
            embeddings == get_embeddings(th.chunks, <<batch_ok>>)
        IN /\ th.pc = "get_embeddings"
           /\ threads' = [threads EXCEPT ![t] =
                            [pc |-> "check_dimension", filename |-> th.filename, text |-> th.text,
                             validation_result |-> th.validation_result, chunks |-> th.chunks,
                             metadatas |-> th.metadatas, embeddings |-> embeddings,
                             i |-> 1, text_id |-> None, text_ids |-> <<>>]]
           /\ UNCHANGED <<vectors, dimension, uuid_next, document_store, rag_storage, last, splitter>>

\* The position after item i of the loop.
AfterItem(th) ==
    [th EXCEPT !.i = th.i + 1,
               !.pc = IF th.i + 1 > Len(th.chunks) THEN "record_document" ELSE "check_dimension"]

\* One iteration of the add_texts loop up to its reads of self.dimension.
pp_check_dimension(t) ==
    LET th == threads[t]
        embedding == th.embeddings[th.i]
    IN /\ th.pc = "check_dimension"
       /\ IF IsFalsy(embedding)
          THEN /\ threads' = [threads EXCEPT ![t] = AfterItem(th)]
               /\ UNCHANGED uuid_next
          ELSE /\ uuid_next' = uuid_next + 1
               /\ threads' = [threads EXCEPT ![t] =
                    IF dimension = None
                    THEN [th EXCEPT !.text_id = uuid_next + 1, !.pc = "bind_dimension"]
                    ELSE IF DimensionMismatch(dimension, embedding)
                    THEN AfterItem([th EXCEPT !.text_id = uuid_next + 1])
                    ELSE [th EXCEPT !.text_id = uuid_next + 1, !.pc = "store_vector"]]
       /\ UNCHANGED <<vectors, dimension, document_store, rag_storage, last, splitter>>

\* self.dimension = len(embedding)
pp_bind_dimension(t) ==
    LET th == threads[t]
    IN /\ th.pc = "bind_dimension"
       /\ dimension' = Len(th.embeddings[th.i])
       /\ threads' = [threads EXCEPT ![t] = [th EXCEPT !.pc = "store_vector"]]
       /\ UNCHANGED <<vectors, uuid_next, document_store, rag_storage, last, splitter>>

\* self.vectors[text_id] = {...}; text_ids.append(text_id)
pp_store_vector(t) ==
    LET th == threads[t]
    IN /\ th.pc = "store_vector"
       /\ vectors' = DictSet(vectors, Record(th.text_id, th.chunks[th.i], th.embeddings[th.i],
                                             th.metadatas[th.i]))
       /\ threads' = [threads EXCEPT ![t] =
                        AfterItem([th EXCEPT !.text_ids = Append(th.text_ids, th.text_id)])]
       /\ UNCHANGED <<dimension, uuid_next, document_store, rag_storage, last, splitter>>

\* The document record is written, the state saved and the call returns.
pp_record_document(t) ==
    LET th == threads[t]
        docs == DocSet(document_store,
                       DocumentRecord(th.filename, th.text, th.chunks, th.text_ids,
                                      th.validation_result))
    IN /\ th.pc = "record_document"
       /\ document_store' = docs
       /\ rag_storage' = SaveDatabase(vectors, dimension, docs)
       /\ Return(t, th.filename,
                 SuccessReturn(th.filename, th.chunks, th.text_ids, th.validation_result))
       /\ UNCHANGED <<vectors, dimension, uuid_next, splitter>>

NextConcurrent ==
    \E t \in Threads :
        \/ pp_check_duplicate(t)
        \/ pp_validate(t)
        \/ pp_get_embeddings(t)
        \/ pp_check_dimension(t)
        \/ pp_bind_dimension(t)
        \/ pp_store_vector(t)
        \/ pp_record_document(t)

SpecConcurrent == Init /\ [][NextConcurrent]_vars

----------------------------------------------------------------------------
(* clear_database running beside other callers of the same RAGService.  The *)
(* code takes no lock: another call can run between vector_db.clear() and   *)
(* the assignment to document_store.                                        *)

\* self.vector_db.clear()
cd_clear_vector_db(t) ==
    /\ threads[t].pc = "idle"
    /\ vectors' = ClearResult(vectors, dimension).vectors
    /\ dimension' = ClearResult(vectors, dimension).dimension
    /\ threads' = [threads EXCEPT ![t] = [pc |-> "drop_documents"]]
    /\ UNCHANGED <<uuid_next, document_store, rag_storage, last, splitter>>

\* self.document_store = {}; self._save_database(); return
cd_drop_documents(t) ==
    /\ threads[t].pc = "drop_documents"
    /\ document_store' = <<>>
    /\ rag_storage' = SaveDatabase(vectors, dimension, <<>>)
    /\ threads' = [threads EXCEPT ![t] = Idle]
    /\ last' = Call("clear_database", [thread |-> t], FALSE, [success |-> TRUE])
    /\ UNCHANGED <<vectors, dimension, uuid_next, splitter>>

\* The other callers upload under one filename.
NextClear ==
    \/ (process_pdf /\ last'.args.filename = F_a)
    \/ get_database_stats
    \/ \E t \in Threads : cd_clear_vector_db(t)
    \/ \E t \in Threads : cd_drop_documents(t)

SpecClear == Init /\ [][NextClear]_vars

----------------------------------------------------------------------------
(* A call of CharacterTextSplitter.split_text, one loop iteration a step.   *)

MaxTextLen == 4
MaxChunkSize == 3
MaxChunkOverlap == 3

\* A letter, a blank and a sentence terminator.
Alphabet == {"a", " ", "."}

SplitTexts == UNION {[1..n -> Alphabet] : n \in 0..MaxTextLen}

InitSplit ==
    /\ vectors = <<>>
    /\ dimension = None
    /\ uuid_next = 0
    /\ document_store = <<>>
    /\ rag_storage = NoStorage
    /\ last = Call("init", <<>>, FALSE, <<>>)
    /\ threads = [t \in Threads |-> Idle]
    /\ \E text \in SplitTexts, chunk_size \in 1..MaxChunkSize, chunk_overlap \in 0..MaxChunkOverlap :
           splitter = [pc |-> "call", text |-> text, chunk_size |-> chunk_size,
                       chunk_overlap |-> chunk_overlap, start |-> 0, chunks |-> <<>>,
                       windows |-> <<>>]

\* if len(text) <= self.chunk_size: return [text]
st_return_whole ==
    /\ splitter.pc = "call"
    /\ Len(splitter.text) <= splitter.chunk_size
    /\ splitter' = [splitter EXCEPT !.pc = "done", !.chunks = <<splitter.text>>]
    /\ last' = Call("split_text", [text |-> splitter.text], FALSE, <<splitter.text>>)
    /\ UNCHANGED <<vectors, dimension, uuid_next, document_store, rag_storage, threads>>

\* One iteration of the while loop; `windows` keeps the [start, end) cut so far.
st_window ==
    LET s == splitter
        nominal == s.start + s.chunk_size
        end == IF nominal < Len(s.text)
               THEN WindowEnd(s.text, s.chunk_size, s.start, nominal) ELSE nominal
        chunk == Strip(PySlice(s.text, s.start, end))
        chunks == IF chunk # <<>> THEN Append(s.chunks, chunk) ELSE s.chunks
        start == NextStart(s.start, end, s.chunk_overlap)
        returns == start >= Len(s.text)
    IN /\ \/ s.pc = "call" /\ Len(s.text) > s.chunk_size
          \/ s.pc = "loop"
       /\ s.start < Len(s.text)
       /\ splitter' = [s EXCEPT !.pc = IF returns THEN "done" ELSE "loop",
                                !.start = start, !.chunks = chunks,
                                !.windows = Append(s.windows, [start |-> s.start, end |-> end])]
       /\ IF returns
          THEN last' = Call("split_text", [text |-> s.text], FALSE, chunks)
          ELSE UNCHANGED last
       /\ UNCHANGED <<vectors, dimension, uuid_next, document_store, rag_storage, threads>>

NextSplit ==
    \/ st_return_whole
    \/ st_window

SpecSplit == InitSplit /\ [][NextSplit]_vars

\* A running call is scheduled until it returns.
SpecSplitFair == SpecSplit /\ WF_vars(NextSplit)

\* The steps compute what the function computes.
SplitStepsAgree ==
    splitter.pc = "done" =>
        splitter.chunks = split_text(splitter.text, splitter.chunk_size, splitter.chunk_overlap)

----------------------------------------------------------------------------
(* A call of RAGService._validate_startup_content on a text and a reply of  *)
(* the judge.                                                               *)

MaxFiller == 4
MaxAiReply == 11

T_ceo == <<"C", "E", "O">>
T_Startup == <<"S", "t", "a", "r", "t", "u", "p">>
T_ecosystem == <<"e", "c", "o", "s", "y", "s", "t", "e", "m">>
T_market_share == <<"m", "a", "r", "k", "e", "t", " ", "s", "h", "a", "r", "e">>

\* head followed by n words that are no vocabulary terms
Doc(head, n) == head \o [i \in 1..(2 * n) |-> IF i % 2 = 1 THEN " " ELSE "x"]

\* A report of 134 words that names one vocabulary term.
T_report == Doc(T_startup, 133)

ValidationTexts ==
    {Doc(head, n) : head \in {<<>>, T_startup, T_Startup, T_ceo, T_ecosystem, T_market_share, T_poem},
                    n \in 0..MaxFiller}
        \cup {T_report}

\* What the judge's reply holds after "Score:": nothing, or a number.
AiReplies == {NoScore, JudgeRaised} \cup 0..MaxAiReply

InitValidate ==
    /\ vectors = <<>>
    /\ dimension = None
    /\ uuid_next = 0
    /\ document_store = <<>>
    /\ rag_storage = NoStorage
    /\ threads = [t \in Threads |-> Idle]
    /\ splitter = NoSplit
    /\ \E text \in ValidationTexts, ai_response \in AiReplies :
           last = Call("enter _validate_startup_content",
                       [text |-> text, ai_response |-> ai_response], FALSE, None)

validate ==
    /\ last.op = "enter _validate_startup_content"
    /\ last' = Call("_validate_startup_content", last.args, FALSE,
                    validate_startup_content(last.args.text, last.args.ai_response))
    /\ UNCHANGED <<vectors, dimension, uuid_next, document_store, rag_storage, threads, splitter>>

NextValidate == validate

SpecValidate == InitValidate /\ [][NextValidate]_vars

----------------------------------------------------------------------------
(* add_texts on lists that EmbeddingModel.get_embeddings sends in several   *)
(* sub-batches.                                                             *)

MaxBatches == 3

\* n texts, the one at position `odd` (if any) with an embedding of length 1
BatchTexts(n, odd) == [i \in 1..n |-> IF i = odd THEN T_pitch ELSE T_startup]

\* Lists that end at or just behind a sub-batch boundary.
BatchLengths == {k * batch_size + d : k \in 0..(MaxBatches - 1), d \in {0, 1}}

\* A new store, or one that holds a record of dimension 2.
InitBatches ==
    /\ document_store = <<>>
    /\ rag_storage = NoStorage
    /\ threads = [t \in Threads |-> Idle]
    /\ splitter = NoSplit
    /\ \E texts \in UNION {[1..n -> {T_growth}] : n \in 0..1} :
           LET st == StoreAfter([vectors |-> <<>>, dimension |-> None, uuid |-> 0], texts)
           IN /\ vectors = st.vectors
              /\ dimension = st.dimension
              /\ uuid_next = st.uuid
    /\ \E n \in BatchLengths :
         \E odd \in {0, 1, n}, batch_oks \in [1..NumBatches(n) -> BOOLEAN] :
           last = Call("enter add_texts",
                       [texts |-> BatchTexts(n, odd), batch_oks |-> batch_oks], FALSE, None)

add_texts_batches ==
    /\ last.op = "enter add_texts"
    /\ LET texts == last.args.texts
           batch_oks == last.args.batch_oks
           r == AddTextsResult(vectors, dimension, uuid_next, texts, NoMetadata, batch_oks)
       IN /\ vectors' = r.vectors
          /\ dimension' = r.dimension
          /\ uuid_next' = r.uuid
          /\ last' = Call("add_texts",
                          [texts |-> texts, batch_oks |-> batch_oks,
                           embeddings |-> get_embeddings(texts, batch_oks)],
                          r.raised, r.text_ids)
    /\ UNCHANGED <<document_store, rag_storage, threads, splitter>>

NextBatches == add_texts_batches

SpecBatches == InitBatches /\ [][NextBatches]_vars

----------------------------------------------------------------------------
(* The simple chunkers: chunk_text of app.py and SimpleRAGService._chunk_text, *)
(* one loop iteration a step.                                                 *)

app_chunk_size == 800
app_overlap == 150
max_chunks == 25
simple_chunk_size == 1000
simple_overlap == 200

MaxQuarters == 5
\* _chunk_text has no limit of its own; its runs are followed up to this many chunks.
MaxChunks == 5

\* n letters followed by b blanks
Padded(n, b) == [i \in 1..(n + b) |-> IF i <= n THEN "a" ELSE " "]

ChunkerTexts ==
    {Padded(q * 400 + r, b) : q \in 0..MaxQuarters, r \in {0, 1}, b \in {0, simple_overlap}}

\* The two functions with their default chunk_size and overlap.
Chunkers ==
    {[fn |-> "chunk_text", chunk_size |-> app_chunk_size, overlap |-> app_overlap],
     [fn |-> "_chunk_text", chunk_size |-> simple_chunk_size, overlap |-> simple_overlap]}

InitChunk ==
    /\ vectors = <<>>
    /\ dimension = None
    /\ uuid_next = 0
    /\ document_store = <<>>
    /\ rag_storage = NoStorage
    /\ last = Call("init", <<>>, FALSE, <<>>)
    /\ threads = [t \in Threads |-> Idle]
    /\ \E text \in ChunkerTexts, c \in Chunkers :
           splitter = [pc |-> "call", fn |-> c.fn, text |-> text, chunk_size |-> c.chunk_size,
                       overlap |-> c.overlap, start |-> 0, chunks |-> <<>>]

\* `chunk.strip()` is truthy
NotBlank(chunk) == \E i \in 1..Len(chunk) : ~IsSpace(chunk[i])

\* The condition of the while loop.
ChunkLoopRuns(s) ==
    /\ s.start < Len(s.text)
    /\ s.fn = "chunk_text" => Len(s.chunks) < max_chunks

\* if len(text) <= chunk_size: return [text]
ck_return_whole ==
    /\ splitter.pc = "call"
    /\ Len(splitter.text) <= splitter.chunk_size
    /\ splitter' = [splitter EXCEPT !.pc = "done", !.chunks = <<splitter.text>>]
    /\ UNCHANGED <<vectors, dimension, uuid_next, document_store, rag_storage, last, threads>>

\* One iteration of the while loop.
ck_window ==
    LET s == splitter
        end == Min(s.start + s.chunk_size, Len(s.text))
        chunk == PySlice(s.text, s.start, end)
        chunks == IF s.fn = "chunk_text" /\ ~NotBlank(chunk) THEN s.chunks
                  ELSE Append(s.chunks, chunk)
        start == end - s.overlap
    IN /\ \/ s.pc = "call" /\ Len(s.text) > s.chunk_size
          \/ s.pc = "loop"
       /\ ChunkLoopRuns(s)
       /\ s.fn = "_chunk_text" => Len(s.chunks) < MaxChunks
       /\ splitter' = [s EXCEPT !.pc = IF start >= Len(s.text) THEN "done" ELSE "loop",
                                !.start = start, !.chunks = chunks]
       /\ UNCHANGED <<vectors, dimension, uuid_next, document_store, rag_storage, last, threads>>

\* The loop condition fails: return chunks.
ck_return ==
    /\ splitter.pc = "loop"
    /\ ~ChunkLoopRuns(splitter)
    /\ splitter' = [splitter EXCEPT !.pc = "done"]
    /\ UNCHANGED <<vectors, dimension, uuid_next, document_store, rag_storage, last, threads>>

NextChunk ==
    \/ ck_return_whole
    \/ ck_window
    \/ ck_return

SpecChunk == InitChunk /\ [][NextChunk]_vars

\* A running call is scheduled until it returns.
SpecChunkFair == SpecChunk /\ WF_vars(NextChunk)

----------------------------------------------------------------------------
(* The simple validators: validate_content of app.py and                    *)
(* SimpleRAGService._validate_content (the same list and the same body).    *)

business_keywords ==
    <<<<"s", "t", "a", "r", "t", "u", "p">>,
      <<"b", "u", "s", "i", "n", "e", "s", "s">>,
      <<"c", "o", "m", "p", "a", "n", "y">>,
      <<"e", "n", "t", "r", "e", "p", "r", "e", "n", "e", "u", "r">>,
      <<"v", "e", "n", "t", "u", "r", "e">>,
      <<"f", "u", "n", "d", "i", "n", "g">>,
      <<"i", "n", "v", "e", "s", "t", "m", "e", "n", "t">>,
      <<"r", "e", "v", "e", "n", "u", "e">>,
      <<"p", "r", "o", "f", "i", "t">>,
      <<"m", "a", "r", "k", "e", "t">>,
      <<"c", "u", "s", "t", "o", "m", "e", "r">>,
      <<"p", "r", "o", "d", "u", "c", "t">>,
      <<"s", "e", "r", "v", "i", "c", "e">>,
      <<"s", "t", "r", "a", "t", "e", "g", "y">>,
      <<"b", "u", "s", "i", "n", "e", "s", "s", " ", "p", "l", "a", "n">>,
      <<"p", "i", "t", "c", "h">>,
      <<"i", "n", "v", "e", "s", "t", "o", "r">>,
      <<"v", "a", "l", "u", "a", "t", "i", "o", "n">>,
      <<"g", "r", "o", "w", "t", "h">>,
      <<"s", "c", "a", "l", "e">>,
      <<"t", "e", "a", "m">>,
      <<"f", "o", "u", "n", "d", "e", "r">>,
      <<"C", "E", "O">>,
      <<"f", "i", "n", "a", "n", "c", "i", "a", "l">>,
      <<"m", "a", "r", "k", "e", "t", "i", "n", "g">>,
      <<"s", "a", "l", "e", "s">>,
      <<"o", "p", "e", "r", "a", "t", "i", "o", "n", "s">>,
      <<"m", "o", "d", "e", "l">>,
      <<"v", "i", "s", "i", "o", "n">>,
      <<"m", "i", "s", "s", "i", "o", "n">>,
      <<"g", "o", "a", "l", "s">>>>

\* sum(1 for keyword in business_keywords if keyword in text_lower)
simple_keyword_count(text) ==
    LET text_lower == Lower(text)
    IN Cardinality({k \in 1..Len(business_keywords) : Contains(text_lower, business_keywords[k])})

\* The result of validate_content and of _validate_content.
SimpleValidation(text) ==
    [is_valid |-> simple_keyword_count(text) >= 3, keyword_count |-> simple_keyword_count(text)]

MaxWords == 3

T_founder == <<"f", "o", "u", "n", "d", "e", "r">>
T_team == <<"T", "e", "a", "m">>

RECURSIVE JoinWords(_)
JoinWords(words) ==
    IF words = <<>> THEN <<>>
    ELSE IF Len(words) = 1 THEN words[1]
    ELSE words[1] \o <<" ">> \o JoinWords(Tail(words))

\* Texts of up to MaxWords words.
SimpleTexts ==
    {JoinWords(words) :
        words \in UNION {[1..n -> {T_ceo, T_founder, T_team, T_Startup, T_poem}] : n \in 0..MaxWords}}

InitSimpleValidate ==
    /\ vectors = <<>>
    /\ dimension = None
    /\ uuid_next = 0
    /\ document_store = <<>>
    /\ rag_storage = NoStorage
    /\ threads = [t \in Threads |-> Idle]
    /\ splitter = NoSplit
    /\ \E text \in SimpleTexts, fn \in {"validate_content", "_validate_content"} :
           last = Call("enter", [fn |-> fn, text |-> text], FALSE, None)

simple_validate ==
    /\ last.op = "enter"
    /\ last' = Call(last.args.fn, last.args, FALSE, SimpleValidation(last.args.text))
    /\ UNCHANGED <<vectors, dimension, uuid_next, document_store, rag_storage, threads, splitter>>

NextSimpleValidate == simple_validate

SpecSimpleValidate == InitSimpleValidate /\ [][NextSimpleValidate]_vars

----------------------------------------------------------------------------
(* The HTTP upload path of api/app.py: upload_pdf and clear_rag_database *)
(*                                                                         *)
(* Here vectors holds the points of the Qdrant collection 'startup_docs',  *)
(* in the order of their upsert, document_store holds the module's         *)
(* documents dict, and uuid_next counts the uuid4() values drawn.  init_rag *)
(* has run: qdrant_client is set and the collection exists.  The in-memory *)
(* collection accepts every upsert, delete_collection and                  *)
(* create_collection call.                                                 *)

MaxUploads == 2    \* uploads that stored points since the last clear
MaxPointIds == 27  \* uuid4() values drawn for points in one run

\* Uploaded names and texts.  The texts are what the PDF's pages hold: too
\* short a text, a text with one listed keyword, an accepted text of one
\* chunk and an accepted text longer than chunk_size.
F_c == <<"c", ".", "p", "d", "f">>
UploadFilenames == {F_a, F_b, F_c}
T_plan == JoinWords(<<T_startup, T_founder, T_growth>>)
T_deck == T_plan \o <<" ">> \o [i \in 1..app_chunk_size |-> "x"]
UploadTexts == {T_poem, JoinWords(<<T_startup, T_poem>>), T_plan, T_deck}
UploadFiles ==
    [filename : UploadFilenames, readable : {TRUE}, text : UploadTexts]
        \cup [filename : {F_a}, readable : {FALSE}, text : {<<>>}]

\* chunk_text's loop from the window start on; chunks holds the chunks
\* appended so far.  The loop does not end for a text whose last overlap
\* characters are blank; no such text is uploaded here.
RECURSIVE ChunkTextLoop(_, _, _, _, _)
ChunkTextLoop(text, chunk_size, overlap, start, chunks) ==
    IF ~(start < Len(text) /\ Len(chunks) < max_chunks) THEN chunks
    ELSE LET end == Min(start + chunk_size, Len(text))
             chunk == SubSeq(text, start + 1, end)
             appended == IF NotBlank(chunk) THEN Append(chunks, chunk) ELSE chunks
         IN IF end - overlap >= Len(text) THEN appended
            ELSE ChunkTextLoop(text, chunk_size, overlap, end - overlap, appended)

chunk_text(text, chunk_size, overlap) ==
    IF Len(text) <= chunk_size THEN <<text>>
    ELSE ChunkTextLoop(text, chunk_size, overlap, 0, <<>>)

\* The text a point's payload carries, by its length: a chunk longer than
\* 5000 characters is cut to 5000 and the 39 characters of the truncation
\* note are appended.
PayloadLength(chunk) == IF Len(chunk) > 5000 THEN 5000 + 39 ELSE Len(chunk)

\* The points built for the chunks: one per chunk, in order, each with a fresh
\* uuid4.  The embedding loop (3 chunks at a time) and the upsert loop (5
\* points at a time) go over all of them in that order.  get_embedding returns the API's vector, or the zero vector when
\* the call failed; it never raises.
UploadPoints(chunks, filename, uuid, api_ok) ==
    [k \in 1..Len(chunks) |->
        [id |-> uuid + k,
         vector |-> IF api_ok THEN "embedding" ELSE "zeros",
         payload |-> [text_length |-> PayloadLength(chunks[k]), filename |-> filename,
                      chunk_index |-> k - 1]]]

\* validate_content and chunk_text with the defaults of upload_pdf's calls,
\* tabulated over the uploaded texts as extract_text_from_pdf returns them.
UploadValidation == [text \in UploadTexts |-> SimpleValidation(Strip(text))]
UploadChunks == [text \in UploadTexts |-> chunk_text(Strip(text), app_chunk_size, app_overlap)]

\* The API key of the environment and the outcome of the embeddings calls.
UploadEnvironments ==
    {[api_key |-> TRUE, api_ok |-> TRUE], [api_key |-> TRUE, api_ok |-> FALSE],
     [api_key |-> FALSE, api_ok |-> FALSE]}

HttpError(status, detail) == [status |-> status, success |-> FALSE, detail |-> detail]

\* upload_pdf on the collection and the documents dict:
\* [ret, points, uuid, documents].
UploadPdfResult(collection, uuid, documents, file, api_key, api_ok) ==
    LET text == Strip(file.text)
        validation == UploadValidation[file.text]
        chunks == SliceTo(UploadChunks[file.text], max_chunks)
        points == UploadPoints(chunks, file.filename, uuid, api_ok)
        entry == [doc_id |-> file.filename, total_chunks |-> Len(chunks),
                  stored_chunks |-> Len(points), validation |-> validation,
                  chunk_uuids |-> [k \in 1..Len(points) |-> points[k].id]]
        Out(ret, c, u, d) == [ret |-> ret, points |-> c, uuid |-> u, documents |-> d]
        Refused(status, detail) == Out(HttpError(status, detail), collection, uuid, documents)
    IN IF ~IsPdf(file.filename) THEN Refused(400, "Only PDF files are supported.")
       ELSE IF ~file.readable THEN Refused(400, "PDF extraction failed")
       ELSE IF text = <<>> \/ Len(Strip(text)) < 10 THEN Refused(400, "PDF extraction failed")
       ELSE IF ~validation.is_valid
       THEN Refused(400, "Document doesn't contain enough business content.")
       ELSE IF ~api_key THEN Refused(500, "OpenAI API key not configured.")
       ELSE IF points = <<>>
       THEN Out(HttpError(500, "Vector database error"), collection, uuid, documents)
       ELSE Out([status |-> 200, success |-> TRUE, document_id |-> file.filename,
                 filename |-> file.filename, total_chunks |-> Len(chunks),
                 chunks_added |-> Len(points)],
                collection \o points, uuid + Len(points), DocSet(documents, entry))

\* Uploads that stored points since the last clear.
StoredUploads(collection) ==
    Cardinality({i \in 1..Len(collection) : collection[i].payload.chunk_index = 0})

upload_pdf ==
    \E file \in UploadFiles, env \in UploadEnvironments :
        \E r \in {UploadPdfResult(vectors, uuid_next, document_store, file,
                                  env.api_key, env.api_ok)} :
           /\ StoredUploads(r.points) <= MaxUploads
           /\ r.uuid <= MaxPointIds
           /\ vectors' = r.points
           /\ uuid_next' = r.uuid
           /\ document_store' = r.documents
           /\ last' = Call("upload_pdf",
                           [filename |-> file.filename, readable |-> file.readable,
                            text |-> file.text, api_key |-> env.api_key, api_ok |-> env.api_ok],
                           ~r.ret.success, r.ret)
           /\ UNCHANGED <<dimension, rag_storage, threads, splitter>>

clear_rag_database ==
    /\ vectors' = <<>>
    /\ document_store' = <<>>
    /\ last' = Call("clear_rag_database", <<>>, FALSE,
                    [success |-> TRUE, message |-> "Database cleared successfully"])
    /\ UNCHANGED <<dimension, uuid_next, rag_storage, threads, splitter>>

NextUpload ==
    \/ upload_pdf
    \/ clear_rag_database

SpecUpload == Init /\ [][NextUpload]_vars

----------------------------------------------------------------------------
(* Snapshots of one VectorDatabase: save_to_file and load_from_file *)
(*                                                                         *)
(* A file holds a JSON document.  json.dump writes None as null, an int or *)
(* float as a number, a str as a string, a list as an array and a dict as  *)
(* an object whose members are the dict's items in its order; json.load    *)
(* reads them back by the kind found in the document.  A document is kept  *)
(* as the tree of its values, each tagged with its JSON kind.              *)

JNull == [json |-> "null"]
JNumber(n) == [json |-> "number", value |-> n]
JString(s) == [json |-> "string", value |-> s]
JArray(items) == [json |-> "array", items |-> items]
JObject(members) == [json |-> "object", members |-> members]
JMember(key, value) == [key |-> key, value |-> value]

MaxSnapshotIds == 2    \* uuid4() values drawn in a run with snapshots

\* The embedding model names a store can be configured with.
default_model_name == "text-embedding-3-small"
ModelNames == {default_model_name, "text-embedding-3-large"}

\* json.dump of the values a store holds.
DumpDimension(dim) == IF dim = None THEN JNull ELSE JNumber(dim)

DumpEmbedding(embedding) == JArray([i \in 1..Len(embedding) |-> JNumber(embedding[i])])

\* The keys a metadata dict is built with, in the order of the dict.
MetadataKeys == <<"filename", "chunk_index">>

DumpMetadata(metadata) ==
    IF metadata = EmptyDict THEN JObject(<<>>)
    ELSE JObject([i \in 1..Len(MetadataKeys) |->
                    JMember(MetadataKeys[i],
                            IF MetadataKeys[i] = "chunk_index"
                            THEN JNumber(metadata[MetadataKeys[i]])
                            ELSE JString(metadata[MetadataKeys[i]]))])

DumpVectors(vecs) ==
    JObject([i \in 1..Len(vecs) |->
                JMember(vecs[i].id,
                        JObject(<<JMember("text", JString(vecs[i].text)),
                                  JMember("embedding", DumpEmbedding(vecs[i].embedding)),
                                  JMember("metadata", DumpMetadata(vecs[i].metadata))>>))])

\* json.load of a document: None, a number, a str, a list, or a dict as the
\* function from its keys.
RECURSIVE JsonLoad(_)
JsonLoad(doc) ==
    CASE doc.json = "null" -> None
      [] doc.json = "number" -> doc.value
      [] doc.json = "string" -> doc.value
      [] doc.json = "array" -> [i \in 1..Len(doc.items) |-> JsonLoad(doc.items[i])]
      [] doc.json = "object" ->
            [key \in {doc.members[i].key : i \in 1..Len(doc.members)} |->
                JsonLoad((CHOOSE m \in {doc.members[i] : i \in 1..Len(doc.members)} :
                            m.key = key).value)]

\* data.get(key, default) on the members of a loaded object.
JsonGet(object, key, default) ==
    IF \E i \in 1..Len(object.members) : object.members[i].key = key
    THEN (CHOOSE m \in {object.members[i] : i \in 1..Len(object.members)} : m.key = key).value
    ELSE default

\* The dict read from the 'vectors' member, as the sequence of its items in
\* the order of the document.
LoadVectors(object) ==
    [i \in 1..Len(object.members) |->
        LET data == JsonLoad(object.members[i].value)
        IN Record(object.members[i].key, data.text, data.embedding, data.metadata)]

\* Mutant: the loaded store keeps the dimension it had.
LoadFromFileResult_keeps_dimension(file, vecs, dim, model_name) ==
    IF ~file.exists THEN [raised |-> TRUE, vectors |-> vecs, dimension |-> dim, warning |-> FALSE]
    ELSE [raised |-> FALSE,
          vectors |-> LoadVectors(JsonGet(file.data, "vectors", JObject(<<>>))),
          dimension |-> dim,
          warning |-> FALSE]

\* save_to_file: the file written for the store.
SaveToFileResult(vecs, dim, model_name) ==
    [exists |-> TRUE,
     data |-> JObject(<<JMember("dimension", DumpDimension(dim)),
                        JMember("model", JString(model_name)),
                        JMember("vectors", DumpVectors(vecs))>>)]

\* load_from_file into a store configured with model_name:
\* [raised, vectors, dimension, warning].  open raises when there is no file;
\* a differing model is printed as a warning.
LoadFromFileResult(file, vecs, dim, model_name) ==
    IF ~file.exists THEN [raised |-> TRUE, vectors |-> vecs, dimension |-> dim, warning |-> FALSE]
    ELSE [raised |-> FALSE,
          vectors |-> LoadVectors(JsonGet(file.data, "vectors", JObject(<<>>))),
          dimension |-> JsonLoad(JsonGet(file.data, "dimension", JNull)),
          warning |-> /\ \E i \in 1..Len(file.data.members) : file.data.members[i].key = "model"
                      /\ JsonLoad(JsonGet(file.data, "model", JNull)) # model_name]

\* The store is saved to and loaded from rag_storage/vector_db.json.  The
\* saving store is built with the default embedding model; model_name is the
\* model of the store that loads the file.
save_to_file ==
    /\ rag_storage' = [rag_storage EXCEPT
                          !.vector_db = SaveToFileResult(vectors, dimension, default_model_name)]
    /\ last' = Call("save_to_file", [model_name |-> default_model_name], FALSE, None)
    /\ UNCHANGED <<vectors, dimension, uuid_next, document_store, threads, splitter>>

load_from_file ==
    \E model_name \in ModelNames :
        \E r \in {LoadFromFileResult(rag_storage.vector_db, vectors, dimension, model_name)} :
            /\ vectors' = r.vectors
            /\ dimension' = r.dimension
            /\ last' = Call("load_from_file", [model_name |-> model_name, warning |-> r.warning],
                            r.raised, None)
            /\ UNCHANGED <<uuid_next, document_store, rag_storage, threads, splitter>>

\* add_text, while ids are left.
snapshot_add_text ==
    /\ uuid_next < MaxSnapshotIds
    /\ add_text

NextSnapshot ==
    \/ snapshot_add_text
    \/ delete_by_id
    \/ clear
    \/ save_to_file
    \/ load_from_file

SpecSnapshot == Init /\ [][NextSnapshot]_vars

----------------------------------------------------------------------------
(* RAGService.stream_rag_response, one generator step at a time *)
(*                                                                         *)
(* Here splitter holds the running generator: its position, the result of  *)
(* query_documents, the deltas the chat completion stream still has to     *)
(* deliver, and the events yielded so far.  An event is the dict that is written after      *)
(* 'data: '.                                                               *)

MaxFragments == 2    \* deltas of one chat completion stream

\* The content of a delta: empty (None or '') or a fragment of the answer.
NoContent == <<>>
DeltaContents == {NoContent, T_pitch}

\* A chat completion stream: its deltas, and whether an exception is raised
\* once they are consumed (at create when there is none).
Upstreams ==
    [deltas : UNION {[1..n -> DeltaContents] : n \in 0..MaxFragments}, raises : BOOLEAN]

apology == "I apologize, but I encountered an error while processing your request."

no_context_response ==
    [success |-> TRUE, response |-> "I don't have any relevant information",
     sources |-> <<>>, used_context |-> FALSE]

MetadataEvent(context_result) ==
    [type |-> "metadata", sources |-> context_result.sources, used_context |-> TRUE,
     context_length |-> Len(context_result.context)]

\* Mutant: a content event is written as the final message.
ContentEvent_as_done(chunk) == [type |-> "done"]

ContentEvent(chunk) == [type |-> "content", content |-> chunk]

DoneEvent == [type |-> "done"]

\* The chunks of the store the query runs on.
StreamTexts == {T_startup, T_pitch}

InitStream ==
    /\ \E texts \in UNION {[1..n -> StreamTexts] : n \in 0..MaxStored} :
           LET st == StoreAfter([vectors |-> <<>>, dimension |-> None, uuid |-> 0], texts)
           IN /\ vectors = st.vectors
              /\ dimension = st.dimension
              /\ uuid_next = st.uuid
    /\ document_store = <<>>
    /\ rag_storage = NoStorage
    /\ last = Call("init", <<>>, FALSE, <<>>)
    /\ threads = [t \in Threads |-> Idle]
    /\ splitter = [pc |-> "call", context_result |-> <<>>, events |-> <<>>]

\* From the call to the first yield: the failure of query_documents, the
\* answer for an empty context, or the metadata.
sr_query ==
    /\ splitter.pc = "call"
    /\ \E q \in Queries, top_k \in TopKs, upstream \in Upstreams :
        \E context_result \in {QueryDocumentsResult(vectors, get_embedding(q.query, q.api_ok),
                                                    top_k)} :
          splitter' =
             IF ~context_result.success
             THEN [pc |-> "done", context_result |-> context_result,
                   events |-> <<context_result>>]
             ELSE IF context_result.context = <<>>
             THEN [pc |-> "done", context_result |-> context_result,
                   events |-> <<no_context_response>>]
             ELSE [pc |-> "stream", context_result |-> context_result, upstream |-> upstream,
                   events |-> <<MetadataEvent(context_result)>>]
    /\ UNCHANGED <<vectors, dimension, uuid_next, document_store, rag_storage, last, threads>>

\* stream_response_with_context takes the next delta and yields its content
\* when there is one; stream_rag_response yields it as a content event.
sr_content ==
    LET s == splitter
    IN /\ s.pc = "stream"
       /\ s.upstream.deltas # <<>>
       /\ splitter' = [s EXCEPT !.upstream.deltas = Tail(s.upstream.deltas),
                                !.events = IF Head(s.upstream.deltas) # NoContent
                                           THEN Append(s.events,
                                                       ContentEvent(Head(s.upstream.deltas)))
                                           ELSE s.events]
       /\ UNCHANGED <<vectors, dimension, uuid_next, document_store, rag_storage, last, threads>>

\* The chat completion raises: stream_response_with_context prints the error
\* and yields the apology, which goes out as a content event.
sr_apology ==
    LET s == splitter
    IN /\ s.pc = "stream"
       /\ s.upstream.deltas = <<>>
       /\ s.upstream.raises
       /\ splitter' = [s EXCEPT !.upstream.raises = FALSE,
                                !.events = Append(s.events, ContentEvent(apology))]
       /\ UNCHANGED <<vectors, dimension, uuid_next, document_store, rag_storage, last, threads>>

\* The inner generator is exhausted: the final message.
sr_done ==
    LET s == splitter
    IN /\ s.pc = "stream"
       /\ s.upstream.deltas = <<>>
       /\ ~s.upstream.raises
       /\ splitter' = [s EXCEPT !.pc = "done", !.events = Append(s.events, DoneEvent)]
       /\ UNCHANGED <<vectors, dimension, uuid_next, document_store, rag_storage, last, threads>>

NextStream ==
    \/ sr_query
    \/ sr_content
    \/ sr_apology
    \/ sr_done

SpecStream == InitStream /\ [][NextStream]_vars

\* The consumer takes events until the generator is exhausted.
SpecStreamFair == SpecStream /\ WF_vars(NextStream)

----------------------------------------------------------------------------
(* Properties of the VectorDatabase *)

\* C1: in every state reached by add_text, add_texts, delete_by_id and clear,
\* every stored embedding has the length `dimension`, and the dimension is set
\* whenever a record is stored.
C1_StoredLengthsEqualDimension ==
    /\ \A i \in 1..Len(vectors) : Len(vectors[i].embedding) = dimension
    /\ vectors # <<>> => dimension # None

\* C1 witness: a batch insert stored two records and skipped one item.
C1_Witness ==
    /\ last.op = "add_texts"
    /\ ~last.raised
    /\ Len(vectors) = 2
    /\ Len(last.ret) < Len(last.args.texts)

\* C2: an add_text whose embedding is empty, or whose length differs from the
\* dimension already set, raises and leaves records and dimension as they were.
C2_FailedAddTextLeavesStore ==
    [][last'.op = "add_text"
         /\ (\/ last'.args.embedding = <<>>
             \/ (dimension # None /\ Len(last'.args.embedding) # dimension))
       => /\ last'.raised
          /\ vectors' = vectors
          /\ dimension' = dimension]_vars

\* C2 witness: add_text raised on a length mismatch against a store holding records.
C2_Witness ==
    /\ last.op = "add_text"
    /\ last.raised
    /\ last.args.embedding # <<>>
    /\ vectors # <<>>
    /\ Len(last.args.embedding) # dimension

Empty == dimension = None /\ vectors = <<>>

\* C6: the store starts EMPTY; the insert that stores the first record binds
\* the dimension to that embedding's length; once bound the dimension is kept
\* by add_text, add_texts and delete_by_id; only clear unbinds it, and leaves
\* the store EMPTY, with get_stats reporting 0 vectors and no dimension and
\* the next add_text accepting any non-empty embedding.
C6_EmptyBoundStateMachine ==
    /\ Empty
    /\ [][/\ (dimension = None /\ vectors' # <<>>)
              => dimension' = Len(vectors'[1].embedding)
          /\ (dimension # None /\ last'.op \in {"add_text", "add_texts", "delete_by_id"})
              => dimension' = dimension
          /\ (dimension # None /\ dimension' = None) => last'.op = "clear"
          /\ last'.op = "clear" => Empty'
          /\ (last.op = "clear" /\ last'.op = "get_stats")
              => last'.ret = [total_vectors |-> 0, dimension |-> None]
          /\ (last.op = "clear" /\ last'.op = "add_text" /\ last'.args.embedding # <<>>)
              => /\ ~last'.raised
                 /\ dimension' = Len(last'.args.embedding)]_vars

\* C6 witness: add_text bound an EMPTY store to length 1 after earlier ids
\* had been drawn.
C6_Witness ==
    /\ last.op = "add_text"
    /\ ~last.raised
    /\ dimension = 1
    /\ Len(vectors) = 1
    /\ vectors[1].id = MaxIds

\* The dimension the items of a batch are held against: the one already set,
\* else the length of the first non-empty embedding of the batch.
BatchDimension(dim, embeddings) ==
    LET nonempty == {i \in 1..Len(embeddings) : embeddings[i] # <<>>}
    IN IF dim # None THEN dim
       ELSE IF nonempty = {} THEN None
       ELSE Len(embeddings[CHOOSE i \in nonempty : \A j \in nonempty : i <= j])

\* C7: add_texts raises only for a metadatas list of the wrong length; otherwise
\* it stores, in input order and behind the existing records, exactly the items
\* whose embedding is non-empty and has the batch's dimension, each under a
\* fresh id, and returns those ids in that order.
C7_BatchSkipsFailedItems ==
    [][last'.op = "add_texts" =>
        LET a == last'.args
            n == Len(a.texts)
            well_formed == a.metadatas = NoMetadata \/ Len(a.metadatas.list) = n
            metas == IF a.metadatas = NoMetadata THEN [i \in 1..n |-> EmptyDict]
                     ELSE a.metadatas.list
            dim == BatchDimension(dimension, a.embeddings)
            kept == SelectSeq([i \in 1..n |-> i],
                              LAMBDA i : a.embeddings[i] # <<>> /\ Len(a.embeddings[i]) = dim)
            ids == last'.ret
        IN /\ last'.raised <=> ~well_formed
           /\ well_formed =>
                /\ Len(ids) = Len(kept)
                /\ \A j \in 1..Len(ids) : ids[j] \notin Ids(vectors)
                /\ \A j, k \in 1..Len(ids) : j # k => ids[j] # ids[k]
                /\ vectors' = vectors \o
                       [j \in 1..Len(kept) |->
                          Record(ids[j], a.texts[kept[j]], a.embeddings[kept[j]], metas[kept[j]])]
                /\ Len(vectors') = Len(vectors) + Len(ids)]_vars

\* C7 witness: a batch in which one item was stored and another skipped.
C7_Witness ==
    /\ last.op = "add_texts"
    /\ ~last.raised
    /\ Len(last.ret) >= 1
    /\ Len(last.ret) < Len(last.args.texts)

ScoreGT(a, b) == ~ScoreGE(b, a)

\* C3: search leaves the store alone; it returns [] for an empty store or an
\* empty query embedding; and for top_k >= 0 its n-th result is the stored
\* record (id, text, metadata, score) that passes the threshold and has exactly
\* n - 1 passing records ranked before it, by higher score or by equal score
\* and earlier insertion, for n up to min(top_k, number of passing records).
C3_SearchRanksStableTopK ==
    [][last'.op = "search" =>
        LET q == last'.args.query_embedding
            k == last'.args.top_k
            th == last'.args.score_threshold
            R == last'.ret
            score(i) == cosine_similarity(q, vectors[i].embedding)
            passing == {i \in 1..Len(vectors) : ScoreGE(score(i), th)}
            Before(j, i) == ScoreGT(score(j), score(i)) \/ (score(j) = score(i) /\ j < i)
        IN /\ vectors' = vectors
           /\ dimension' = dimension
           /\ (vectors = <<>> \/ q = <<>>) => (~last'.raised /\ R = <<>>)
           /\ (vectors # <<>> /\ q # <<>> /\ ~last'.raised /\ k >= 0) =>
                /\ Len(R) = Min(k, Cardinality(passing))
                /\ \A n \in 1..Len(R) :
                     \E i \in passing :
                        /\ R[n] = [id |-> vectors[i].id, text |-> vectors[i].text,
                                   metadata |-> vectors[i].metadata, score |-> score(i)]
                        /\ Cardinality({j \in passing : Before(j, i)}) = n - 1]_vars

\* C3 witness: two stored records tie on the score and top_k = 1 returned the
\* earlier-inserted one of them.
C3_Witness ==
    /\ last.op = "search"
    /\ ~last.raised
    /\ last.args.top_k = 1
    /\ Len(last.ret) = 1
    /\ Len(vectors) = 2
    /\ last.ret[1].id = vectors[1].id
    /\ cosine_similarity(last.args.query_embedding, vectors[1].embedding)
         = cosine_similarity(last.args.query_embedding, vectors[2].embedding)
    /\ ScoreGE(last.ret[1].score, last.args.score_threshold)

----------------------------------------------------------------------------
(* Properties of the RAGService *)

StoresUnchanged ==
    /\ vectors' = vectors
    /\ dimension' = dimension
    /\ document_store' = document_store

\* C4: a process_pdf call for a new filename whose extracted text is blank
\* fails, one whose content the validation rejects (is_valid false) fails, and
\* every call that fails, for these reasons or for no chunks, leaves the
\* records and dimension of the vector store and the document store as they
\* were.
C4_FailedIngestLeavesStores ==
    [][last'.op = "process_pdf" =>
        LET a == last'.args
            ret == last'.ret
            new == a.filename \notin DocIds(document_store)
        IN /\ (new /\ a.readable /\ Strip(a.text) = <<>>) => ~ret.success
           /\ (a.validation_result # <<>> /\ ~a.validation_result.is_valid) => ~ret.success
           /\ ~ret.success => StoresUnchanged]_vars

\* C4 witness: the validation rejected a document while both stores held data.
C4_Witness ==
    /\ last.op = "process_pdf"
    /\ ~last.ret.success
    /\ last.args.validation_result # <<>>
    /\ ~last.args.validation_result.is_valid
    /\ vectors # <<>>
    /\ document_store # <<>>

\* The chunk ids listed by the document records, as (document, position) pairs.
Listings(docs) ==
    {p \in (1..Len(docs)) \X (1..MaxIds) : p[2] <= Len(docs[p[1]].chunk_ids)}

\* C5: in every state reached by process_pdf and clear_database calls, every
\* chunk id a document record lists is the id of a stored record, every stored
\* record is listed exactly once, and the number of stored records is the
\* number of listed ids; clear_database leaves both stores empty.
C5_NoDanglingReferences ==
    /\ [](/\ \A p \in Listings(document_store) :
                document_store[p[1]].chunk_ids[p[2]] \in Ids(vectors)
          /\ \A i \in 1..Len(vectors) :
                Cardinality({p \in Listings(document_store) :
                                document_store[p[1]].chunk_ids[p[2]] = vectors[i].id}) = 1
          /\ Len(vectors) = Cardinality(Listings(document_store)))
    /\ [][last'.op = "clear_database" => (vectors' = <<>> /\ document_store' = <<>>)]_vars

\* C5 witness: two documents are recorded after an earlier clear_database, one
\* with its chunk stored and one whose chunk was skipped.
C5_Witness ==
    /\ last.op = "process_pdf"
    /\ Len(document_store) = 2
    /\ Len(vectors) = 1
    /\ document_store[2].chunk_ids = <<>>
    /\ document_store[2].total_chunks = 1
    /\ rag_storage.document_metadata.document_store = document_store

\* The score k / 1000 in the representation of the scores.
Thousandths(k) == Fraction((IF k >= 0 THEN 1 ELSE -1) * k * k, 1000000)

\* What query_documents answers on the store for the query embedding q and
\* top_k k: a failure exactly in the cases FailsWhen names, else a success whose
\* sources are the ranked passing records (filename, chunk_index and a score
\* that ScoreIs accepts) and whose context is their texts joined by a blank line.
QueryContract(q, k, ret, FailsWhen(_), ScoreIs(_, _)) ==
    LET mismatch == q # <<>> /\ \E i \in 1..Len(vectors) : Len(vectors[i].embedding) # Len(q)
        score(i) == cosine_similarity(q, vectors[i].embedding)
        passing == IF q = <<>> THEN {}
                   ELSE {i \in 1..Len(vectors) : ScoreGE(score(i), query_score_threshold)}
        Before(j, i) == ScoreGT(score(j), score(i)) \/ (score(j) = score(i) /\ j < i)
        m == IF k >= 0 THEN Min(k, Cardinality(passing)) ELSE Max(Cardinality(passing) + k, 0)
        ranked == [n \in 1..m |->
                     CHOOSE i \in passing : Cardinality({j \in passing : Before(j, i)}) = n - 1]
    IN /\ ~ret.success <=> FailsWhen(mismatch)
       /\ ret.success =>
            /\ Len(ret.sources) = m
            /\ \A n \in 1..m :
                 /\ ret.sources[n].filename = vectors[ranked[n]].metadata.filename
                 /\ ret.sources[n].chunk_index = vectors[ranked[n]].metadata.chunk_index
                 /\ ScoreIs(ret.sources[n].score, score(ranked[n]))
            /\ ret.context = JoinBlank([n \in 1..m |-> vectors[ranked[n]].text])
            /\ m = 0 => ret = [success |-> TRUE, context |-> <<>>, sources |-> <<>>]

\* C8 as stated: query_documents fails if and only if the vector store holds
\* no records; otherwise it succeeds with the context joined in ranked order and
\* sources[i] carrying the filename, chunk_index and score of the i-th result.
C8_Original ==
    [][last'.op = "query_documents" =>
        LET FailsWhen(mismatch) == vectors = <<>>
            ScoreIs(reported, score) == Thousandths(reported) = score
        IN QueryContract(last'.args.query_embedding, last'.args.top_k, last'.ret,
                         FailsWhen, ScoreIs)]_vars

\* C8, amended: query_documents fails if and only if the vector store holds no
\* records or the query embedding is non-empty and differs in length from a
\* stored embedding; otherwise it succeeds, sources[i] carries the filename and
\* chunk_index of the i-th ranked result and its score rounded to 3 decimals,
\* context is the results' texts joined by a blank line in ranked order, and
\* with no passing chunk the result is a success with empty context and sources.
C8_QueryFailsOnEmptyOrMismatch ==
    [][last'.op = "query_documents" =>
        LET FailsWhen(mismatch) == vectors = <<>> \/ mismatch
            ScoreIs(reported, score) == reported = Round3(score)
        IN QueryContract(last'.args.query_embedding, last'.args.top_k, last'.ret,
                         FailsWhen, ScoreIs)]_vars

\* C8 witness: a query returned two sources whose reported score 0.707 is not
\* the similarity itself.
C8_Witness ==
    /\ last.op = "query_documents"
    /\ last.ret.success
    /\ Len(last.ret.sources) = 2
    /\ last.ret.sources[1].score = 707
    /\ last.ret.context = vectors[1].text \o NL \o NL \o vectors[2].text

\* C9: a process_pdf call whose filename is already in the document store
\* returns success with the stored total_chunks and leaves vector store and
\* document store unchanged, whatever the bytes; in every state each filename
\* has at most one document record and no chunk of it is stored twice.
C9_DuplicateFilenameSkipped ==
    /\ [][(last'.op = "process_pdf" /\ last'.args.filename \in DocIds(document_store)) =>
            /\ last'.ret.success
            /\ last'.ret.total_chunks = DocGet(document_store, last'.args.filename).total_chunks
            /\ StoresUnchanged]_vars
    /\ [](\A f \in Filenames :
            /\ Cardinality({d \in 1..Len(document_store) : document_store[d].filename = f}) <= 1
            /\ \A i, j \in 1..Len(vectors) :
                  (i # j /\ vectors[i].metadata.filename = f /\ vectors[j].metadata.filename = f)
                     => vectors[i].metadata.chunk_index # vectors[j].metadata.chunk_index)

\* C9 witness: a second upload under a stored filename, with unreadable bytes,
\* was answered as already processed.
C9_Witness ==
    /\ last.op = "process_pdf"
    /\ last.args.filename \in DocIds(document_store)
    /\ ~last.args.readable
    /\ last.ret.success
    /\ last.ret.total_chunks = 1
    /\ Len(vectors) = 1

\* Threads inside the add_texts loop or at the document_store write.
Mutating ==
    {t \in Threads : threads[t].pc \in {"check_dimension", "bind_dimension",
                                        "store_vector", "record_document"}}

OneMutationInFlight == Cardinality(Mutating) <= 1

NoDimensionRace == \A i \in 1..Len(vectors) : Len(vectors[i].embedding) = dimension

NoDoubleInsert ==
    \A i, j \in 1..Len(vectors) :
        (i # j /\ vectors[i].metadata.filename = vectors[j].metadata.filename)
            => vectors[i].metadata.chunk_index # vectors[j].metadata.chunk_index

\* C10: concurrent process_pdf calls on one service are serialized: at most one
\* of them is mutating the vector store at any time, so no stored embedding
\* has a length other than the dimension and no chunk of a filename is stored
\* twice.
C10_ConcurrentIngestsSerialized ==
    /\ OneMutationInFlight
    /\ NoDimensionRace
    /\ NoDoubleInsert

\* The vector store is cleared while document records that list chunks remain.
Torn == vectors = <<>> /\ Listings(document_store) # {}

\* C11: clear_database is atomic for other callers: no get_database_stats or
\* process_pdf call runs on a state in which the vector store is cleared
\* while document records listing its chunks remain.
C11_ClearIsAtomic ==
    [][last'.op \in {"get_database_stats", "process_pdf"} => ~Torn]_vars

----------------------------------------------------------------------------
(* Properties of CharacterTextSplitter.split_text *)

\* C12: split_text terminates for every text, chunk_size >= 1 and
\* chunk_overlap >= 0: every loop iteration moves the window start strictly
\* forward, the loop stops exactly when the start has reached the text length,
\* and every call returns.
C12_SplitTerminates ==
    /\ [][splitter'.windows # splitter.windows =>
            /\ splitter'.start > splitter.start
            /\ splitter'.pc = "done" <=> splitter'.start >= Len(splitter.text)]_vars
    /\ <>(splitter.pc = "done")

\* A call with chunk_overlap >= chunk_size has returned after several iterations.
C12_Witness ==
    /\ splitter.pc = "done"
    /\ Len(splitter.windows) >= 2
    /\ splitter.chunk_overlap >= splitter.chunk_size

\* C13: for a text longer than chunk_size, every returned chunk has at most
\* chunk_size characters.
C13_ChunksWithinChunkSize ==
    (splitter.pc = "done" /\ Len(splitter.text) > splitter.chunk_size) =>
        \A i \in 1..Len(splitter.chunks) : Len(splitter.chunks[i]) <= splitter.chunk_size

\* The chunk cut from window w of the running call.
ChunkOf(w) == Strip(PySlice(splitter.text, w.start, w.end))

\* Position p of the text (counted from 1) lies in a window whose chunk was
\* returned, or the whole text was returned.
Covered(p) ==
    \/ splitter.windows = <<>> /\ splitter.chunks = <<splitter.text>>
    \/ \E k \in 1..Len(splitter.windows) :
           /\ splitter.windows[k].start < p
           /\ p <= splitter.windows[k].end
           /\ \E i \in 1..Len(splitter.chunks) : splitter.chunks[i] = ChunkOf(splitter.windows[k])

\* C14: the windows cut by split_text leave no gap: the first starts at 0,
\* each later one starts no later than the end of the one before it, the last
\* one reaches the end of the text, and every non-whitespace character of the
\* text lies in a returned chunk.
C14_WindowsCoverText ==
    LET w == splitter.windows
    IN /\ w # <<>> => w[1].start = 0
       /\ \A k \in 2..Len(w) : w[k].start <= w[k - 1].end
       /\ splitter.pc = "done" =>
            /\ w # <<>> => w[Len(w)].end >= Len(splitter.text)
            /\ \A p \in 1..Len(splitter.text) : ~IsSpace(splitter.text[p]) => Covered(p)

\* A call has returned after several windows, one of them cut back to a blank
\* and one of them dropped as blank.
C14_Witness ==
    /\ splitter.pc = "done"
    /\ Len(splitter.windows) > Len(splitter.chunks)
    /\ \E k \in 1..Len(splitter.windows) :
           splitter.windows[k].end < splitter.windows[k].start + splitter.chunk_size

\* C15: for a non-empty text no longer than chunk_size, split_text returns
\* exactly one chunk, the text with leading and trailing whitespace trimmed.
C15_ShortTextReturnedTrimmed ==
    (/\ splitter.pc = "done"
     /\ splitter.text # <<>>
     /\ Len(splitter.text) <= splitter.chunk_size) =>
        splitter.chunks = <<Strip(splitter.text)>>

\* C16: split_text never returns a chunk that is empty after trimming, and for
\* an empty text it returns the empty sequence.
C16_NoBlankChunks ==
    splitter.pc = "done" =>
        /\ \A i \in 1..Len(splitter.chunks) : Strip(splitter.chunks[i]) # <<>>
        /\ splitter.text = <<>> => splitter.chunks = <<>>

----------------------------------------------------------------------------
(* Properties of RAGService._validate_startup_content *)

\* The vocabulary terms, in lower case, that occur in the lower-cased text.
TermsPresent(text) ==
    {Lower(startup_keywords[k]) : k \in {j \in 1..Len(startup_keywords) :
                                           Contains(Lower(text), Lower(startup_keywords[j]))}}

\* C17: keyword_count is the number of distinct vocabulary terms that occur in
\* the text when letter case is ignored, each term counted once.
C17_KeywordCountDistinctTerms ==
    last.op = "_validate_startup_content" =>
        last.ret.keyword_count = Cardinality(TermsPresent(last.args.text))

\* max(word_count, 1) of the validated text
Words == Max(WordCount(last.args.text), 1)

\* C18 as stated: the reported keyword_density is keyword_count / max(word_count, 1) * 100,
\* the reported final_score is (keyword_density * 2 + ai_score) / 3 of the
\* reported values, and is_valid holds exactly when the reported final_score
\* is at least 3.5 (reported numbers are in hundredths).
C18_Original ==
    last.op = "_validate_startup_content" =>
        LET r == last.ret
        IN /\ r.keyword_density * Words = 10000 * r.keyword_count
           /\ 3 * r.final_score = 2 * r.keyword_density + 100 * r.ai_score
           /\ r.is_valid <=> r.final_score >= 350

\* C18: the reported keyword_density is keyword_count / max(word_count, 1) * 100
\* rounded to two decimals, the reported final_score is
\* (keyword_density * 2 + ai_score) / 3 of the unrounded density, rounded to
\* two decimals, and is_valid holds exactly when the unrounded final score is
\* at least 3.5.
C18_ScoresRoundedGateUnrounded ==
    last.op = "_validate_startup_content" =>
        LET r == last.ret
            \* 3 * Words * (the unrounded final score)
            final3w == 200 * r.keyword_count + r.ai_score * Words
        IN /\ 2 * Abs(r.keyword_density * Words - 10000 * r.keyword_count) <= Words
           /\ 2 * Abs(r.final_score * 3 * Words - 100 * final3w) <= 3 * Words
           /\ r.is_valid <=> 2 * final3w >= 21 * Words

\* A result that reports final_score 3.5 and is not valid, of a text whose
\* density has more than two decimals.
C18_Witness ==
    /\ last.op = "_validate_startup_content"
    /\ last.ret.final_score = 350
    /\ ~last.ret.is_valid
    /\ last.ret.keyword_density * Words # 10000 * last.ret.keyword_count

\* C19: validation accepts a document exactly when its final score is at
\* least 4.0.
C19_AcceptsFromFour ==
    last.op = "_validate_startup_content" =>
        (last.ret.is_valid <=>
            200 * last.ret.keyword_count + last.ret.ai_score * Words >= 12 * Words)

----------------------------------------------------------------------------
(* Properties of the judge fallback *)

\* C20: when the judge's reply holds no score or the call of the judge
\* raises, the validation result is complete and carries ai_score 5, and
\* process_pdf goes on with it: it returns success exactly when that result is
\* valid and reports its final_score.
C20_JudgeFailureIsNeutral ==
    (last.op = "process_pdf" /\ last.args.ai_response \in JudgeDown) =>
        LET v == last.args.validation_result
        IN /\ DOMAIN v = {"is_valid", "keyword_count", "keyword_density", "ai_score", "final_score"}
           /\ v.ai_score = 5
           /\ last.ret.success <=> v.is_valid
           /\ last.ret.success => last.ret.relevance_score = v.final_score

\* A document was stored by an upload during which the judge raised.
C20_Witness ==
    /\ last.op = "process_pdf"
    /\ last.args.ai_response = JudgeRaised
    /\ last.ret.success
    /\ vectors # <<>>

\* C28: the ai_score of a validation result is an integer from 1 to 10,
\* whatever the judge replied.
C28_AiScoreInRange ==
    last.op = "_validate_startup_content" => last.ret.ai_score \in 1..10

\* C29: the dimension of a VectorDatabase is unset exactly when the store holds
\* no record.
C29_DimensionUnsetIffEmpty == (dimension = None) <=> (vectors = <<>>)

\* C30: for top_k >= 0, similarity_search_with_score_threshold returns what
\* search returns for the same store, query, score_threshold and top_k.
C30_ThresholdSearchEqualsSearch ==
    (last.op = "similarity_search_with_score_threshold" /\ last.args.top_k >= 0) =>
        LET r == SearchResult(vectors, last.args.query_embedding, last.args.top_k,
                              last.args.score_threshold)
        IN last.raised = r.raised /\ last.ret = r.results

----------------------------------------------------------------------------
(* Properties of the batch embedding *)

\* get_embeddings returned one entry per text, in input order: the empty
\* vector at the positions of failed sub-batches, the API's embedding elsewhere.
EntriesFollowBatches(a) ==
    /\ Len(a.embeddings) = Len(a.texts)
    /\ \A i \in 1..Len(a.texts) :
         LET k == ((i - 1) \div 100) + 1
         IN IF a.batch_oks[k] THEN a.embeddings[i] = ApiEmbedding(a.texts[i])
            ELSE a.embeddings[i] = <<>>

\* vectors' is vectors followed by the items of `kept`, in input order.
StoresExactly(a, kept) ==
    /\ Len(vectors') = Len(vectors) + Len(kept)
    /\ SubSeq(vectors', 1, Len(vectors)) = vectors
    /\ \A j \in 1..Len(kept) :
         LET rec == vectors'[Len(vectors) + j]
         IN rec.text = a.texts[kept[j]] /\ rec.embedding = ApiEmbedding(a.texts[kept[j]])

\* C22 as stated: get_embeddings returns one entry per text in input order,
\* empty exactly at the positions of failed sub-batches, and add_texts stores
\* every item of a sub-batch that succeeded and no other.
C22_Original ==
    [][last'.op = "add_texts" =>
        \E a \in {last'.args} :
          \E kept \in {SelectSeq([i \in 1..Len(a.texts) |-> i],
                                 LAMBDA i : a.batch_oks[((i - 1) \div 100) + 1])} :
            EntriesFollowBatches(a) /\ StoresExactly(a, kept)]_vars

\* C22: get_embeddings returns one entry per text in input order, empty
\* exactly at the positions of failed sub-batches whatever the fate of the
\* sub-batches before and after them, and add_texts stores exactly the items
\* of succeeded sub-batches whose embedding has the dimension the batch is held
\* against.
C22_FailedSubBatchesSkipped ==
    [][last'.op = "add_texts" =>
        \E a \in {last'.args} :
          \E dim \in {BatchDimension(dimension, a.embeddings)} :
            \E kept \in {SelectSeq([i \in 1..Len(a.texts) |-> i],
                                   LAMBDA i : /\ a.batch_oks[((i - 1) \div 100) + 1]
                                              /\ Len(ApiEmbedding(a.texts[i])) = dim)} :
              EntriesFollowBatches(a) /\ StoresExactly(a, kept)]_vars

\* A list of three sub-batches was added whose middle sub-batch failed while
\* the first and the last were stored.
C22_Witness ==
    /\ last.op = "add_texts"
    /\ Len(last.args.texts) > 2 * batch_size
    /\ last.args.batch_oks = <<TRUE, FALSE, TRUE>>
    /\ Len(last.ret) = Len(last.args.texts) - batch_size

----------------------------------------------------------------------------
(* Properties of the simple chunkers *)

\* C26: chunk_text and _chunk_text terminate for every text, and every loop
\* iteration moves the window start strictly forward.
C26_SimpleChunkersAdvance ==
    /\ [][(splitter.pc # "done" /\ splitter'.pc # "done") =>
            splitter'.start > splitter.start]_vars
    /\ <>(splitter.pc = "done")

----------------------------------------------------------------------------
(* Properties of the simple validators *)

\* The listed keywords, in lower case, that occur in the lower-cased text.
BusinessTermsPresent(text) ==
    {Lower(business_keywords[k]) : k \in {j \in 1..Len(business_keywords) :
                                            Contains(Lower(text), Lower(business_keywords[j]))}}

\* C21: validate_content and _validate_content report as keyword_count the
\* number of listed keywords that occur in the text when letter case is
\* ignored, each counted once, and accept exactly when that number is at
\* least 3.
C21_AcceptsFromThreeKeywords ==
    last.op \in {"validate_content", "_validate_content"} =>
        /\ last.ret.keyword_count = Cardinality(BusinessTermsPresent(last.args.text))
        /\ last.ret.is_valid <=> Cardinality(BusinessTermsPresent(last.args.text)) >= 3

----------------------------------------------------------------------------
(* Properties of an ingest whose embeddings all failed *)

\* C25: no document record lists an empty chunk_ids, and a process_pdf call
\* for a filename not yet in the document store returns success only when it
\* inserted at least one record into the vector store.
C25_RecordNeedsInsertedChunk ==
    /\ [](\A d \in 1..Len(document_store) : document_store[d].chunk_ids # <<>>)
    /\ [][(/\ last'.op = "process_pdf"
           /\ last'.args.filename \notin DocIds(document_store)
           /\ last'.ret.success) => Len(vectors') > Len(vectors)]_vars

----------------------------------------------------------------------------
(* Properties of the HTTP upload path *)

\* The sum of stored_chunks over the entries of the documents dict.
RECURSIVE StoredChunks(_)
StoredChunks(documents) ==
    IF documents = <<>> THEN 0
    ELSE documents[1].stored_chunks + StoredChunks(Tail(documents))

\* C27: after every sequence of upload_pdf and clear_rag_database calls the
\* number of points in the collection is the sum of stored_chunks over the
\* entries of the documents dict.
C27_PointsTrackedByDocuments ==
    Len(vectors) = StoredChunks(document_store)

----------------------------------------------------------------------------
(* Properties of the snapshots *)

\* What search answers on the store for every query embedding, top_k and
\* score_threshold of the model.
SearchAnswers(vecs) ==
    [q \in Queries, top_k \in TopKs, score_threshold \in Thresholds |->
        SearchResult(vecs, get_embedding(q.query, q.api_ok), top_k, score_threshold)]

\* The model name recorded in the file.
RecordedModel(file) == JsonLoad(JsonGet(file.data, "model", JNull))

\* C24: the file save_to_file writes, loaded by load_from_file into a store
\* of the same model, gives back the dimension and the records (id, text,
\* embedding, metadata) of the saving store in their order, and search
\* answers the same on both; load_from_file of an existing file does not
\* raise, whatever the model of the loading store, and warns exactly when the
\* recorded model differs from it.
C24_SnapshotRoundTrip ==
    /\ [][last'.op = "save_to_file" =>
            \E r \in {LoadFromFileResult(rag_storage'.vector_db, <<>>, None,
                                         last'.args.model_name)} :
                /\ ~r.raised
                /\ ~r.warning
                /\ r.dimension = dimension
                /\ r.vectors = vectors
                /\ SearchAnswers(r.vectors) = SearchAnswers(vectors)]_vars
    /\ [][(last'.op = "load_from_file" /\ rag_storage.vector_db.exists) =>
            /\ ~last'.raised
            /\ last'.args.warning <=>
                  (RecordedModel(rag_storage.vector_db) # last'.args.model_name)
            /\ \E saved \in {LoadFromFileResult(rag_storage.vector_db, <<>>, None,
                                                RecordedModel(rag_storage.vector_db))} :
                  /\ vectors' = saved.vectors
                  /\ dimension' = saved.dimension]_vars

\* C24 witness: a store of two records, one with metadata, was saved, then
\* cleared, and a store configured with another model has loaded the file:
\* both records are back in their order, with a warning.
C24_Witness ==
    /\ last.op = "load_from_file"
    /\ ~last.raised
    /\ last.args.warning
    /\ Len(vectors) = 2
    /\ vectors[1].id < vectors[2].id
    /\ vectors[2].metadata # EmptyDict
    /\ dimension = Len(vectors[1].embedding)

----------------------------------------------------------------------------
(* Properties of stream_rag_response *)

\* The type of an event; the failure and the no-context answers have none.
EventType(event) == IF "type" \in DOMAIN event THEN event.type ELSE "none"

\* The call has retrieved a non-empty context.
Retrieved(s) ==
    /\ s.pc # "call"
    /\ s.context_result.success
    /\ s.context_result.context # <<>>

\* C23: for a query with a non-empty retrieved context the events yielded so
\* far are the metadata event, then content events only, then, once the
\* generator has finished and only then, one done event as the last one;
\* events are only ever appended, none after done, and the generator
\* finishes.
C23_StreamEventOrder ==
    /\ [](Retrieved(splitter) =>
            /\ Len(splitter.events) >= 1
            /\ EventType(splitter.events[1]) = "metadata"
            /\ \A i \in 2..Len(splitter.events) :
                  \/ EventType(splitter.events[i]) = "content"
                  \/ /\ EventType(splitter.events[i]) = "done"
                     /\ i = Len(splitter.events)
            /\ splitter.pc = "done" <=>
                  EventType(splitter.events[Len(splitter.events)]) = "done")
    /\ [][/\ Len(splitter'.events) >= Len(splitter.events)
          /\ SubSeq(splitter'.events, 1, Len(splitter.events)) = splitter.events
          /\ splitter.pc = "done" => splitter'.events = splitter.events]_vars
    /\ <>(splitter.pc = "done")

\* C23 witness: the stream delivered one fragment and then raised; the events
\* are the metadata, the fragment, the apology as content, and done.
C23_Witness ==
    /\ splitter.pc = "done"
    /\ Retrieved(splitter)
    /\ Len(splitter.events) = 4
    /\ splitter.events[2] = ContentEvent(T_pitch)
    /\ splitter.events[3] = ContentEvent(apology)
    /\ splitter.events[4] = DoneEvent

============================================================================
